---- MODULE Spec2Model ----
(***************************************************************************)
(* Link Drops / Tetris Adventure: the game board (src/src/gameBoard.ts),   *)
(* the pieces (src/src/piece.ts) and the game script (src/src/game.ts,     *)
(* the module index.html loads).                                           *)
(*                                                                         *)
(* Coordinates are 0-based as in the source: grid[y][x], (0,0) top-left.   *)
(* A shape is a tuple of rows; Cell(shape, y, x) reads shape[y][x] of the  *)
(* source.                                                                 *)
(***************************************************************************)
EXTENDS Integers, Sequences, FiniteSets, TLC

VARIABLES
    gamePhase,             \* game.ts:10
    board,                 \* game.ts:11   [width, height, grid]
    score,                 \* game.ts:12
    linesCompleted,        \* game.ts:13
    hazardsCount,          \* game.ts:14
    currentPiece,          \* game.ts:15   [shape, terrainType]
    currentPiecePosition,  \* game.ts:16
    playerPosition,        \* game.ts:17
    enemies,               \* game.ts:18   sequence of positions
    treasures,             \* game.ts:19   sequence of [x, y, value]
    timers,                \* pending setTimeout(moveEnemies) callbacks (game.ts:447)
    hung,                  \* the resampling loop of game.ts:355-360 never exits
    placed,                \* pieces placed so far (bounds the exploration)
    runs,                  \* restarts so far (bounds the exploration)
    moves,                 \* player moves so far (bounds the exploration)
    dropCounter,           \* touchControls.ts:122 (the canvas game loop)
    events,                \* state/events.ts:11, the callbacks of one event
    assetLoader,           \* state/events.ts:148-152
    loadingLayer,          \* the LoadingLayer of CanvasRenderer.loadAssets
    call                   \* the last call of a board function, or the last
                           \* input of the game

vars == <<gamePhase, board, score, linesCompleted, hazardsCount, currentPiece,
          currentPiecePosition, playerPosition, enemies, treasures, timers,
          hung, placed, runs, moves, dropCounter, events, assetLoader,
          loadingLayer, call>>

gameVars == <<gamePhase, score, linesCompleted, hazardsCount, currentPiece,
              currentPiecePosition, playerPosition, enemies, treasures, timers,
              hung, placed, runs, moves, dropCounter, events, assetLoader,
              loadingLayer>>

\* the objects of the page that the game of game.ts does not use
pageVars == <<events, assetLoader, loadingLayer>>

----------------------------------------------------------------------------
(* types.ts: enum TerrainType *)
EMPTY == 0
FOREST == 1
MOUNTAIN == 2
WATER == 3
PATH == 4
HAZARD == 5
PLAYER == 6
ENEMY == 7
TREASURE == 8
SAFE_HAVEN == 9

\* what getCell returns outside the grid (undefined in the source): no terrain
UNDEFINED == -1

----------------------------------------------------------------------------
(* Bounds of the exploration *)

\* the boards given to the board functions have up to MaxCells cells
MaxCells == 9
\* the boards given to isValidMove hold at most MaxFilled non-Empty cells
MaxFilled == 2

----------------------------------------------------------------------------
(* gameBoard.ts *)

Pos(x, y) == [x |-> x, y |-> y]

\* new GameBoard(width, height)
GameBoard(width, height) ==
    [width |-> width, height |-> height,
     grid |-> [y \in 0..(height - 1) |-> [x \in 0..(width - 1) |-> EMPTY]]]

Cells(b) == {Pos(x, y) : x \in 0..(b.width - 1), y \in 0..(b.height - 1)}

At(b, p) == b.grid[p.y][p.x]

isPositionValid(b, x, y) ==
    x >= 0 /\ x < b.width /\ y >= 0 /\ y < b.height

getCell(b, x, y) ==
    IF isPositionValid(b, x, y) THEN b.grid[y][x] ELSE UNDEFINED

setCellWrapped(b, x, y, terrainType) ==
    [b EXCEPT !.grid[y % b.height][x % b.width] = terrainType]

setCell(b, x, y, terrainType) ==
    IF isPositionValid(b, x, y)
    THEN [b EXCEPT !.grid[y][x] = terrainType]
    ELSE b

RowIsCompleteSkipFirst(b, y, x) ==
    \A c \in (x + 1)..(b.width - 1) : b.grid[y][c] # EMPTY

\* the inner loop of checkCompletedLines: scan row y from column x on,
\* stopping at the first Empty cell
RECURSIVE RowIsComplete(_, _, _)
RowIsComplete(b, y, x) ==
    IF x >= b.width THEN TRUE
    ELSE IF b.grid[y][x] = EMPTY THEN FALSE
    ELSE RowIsComplete(b, y, x + 1)

\* the outer loop of checkCompletedLines, from row y on
RECURSIVE CheckLinesFrom(_, _, _)
CheckLinesFrom(b, y, completedLines) ==
    IF y >= b.height THEN completedLines
    ELSE CheckLinesFrom(b, y + 1,
            IF RowIsComplete(b, y, 0) THEN Append(completedLines, y)
            ELSE completedLines)

checkCompletedLines(b) == CheckLinesFrom(b, 0, <<>>)

convertFirstLineOnly(b, completedLines) ==
    IF completedLines = <<>> THEN b
    ELSE [b EXCEPT !.grid[Head(completedLines)] =
                       [x \in 0..(b.width - 1) |-> PATH]]

\* for (const y of completedLines) for x: grid[y][x] = PATH
RECURSIVE convertCompletedLinesToPath(_, _)
convertCompletedLinesToPath(b, completedLines) ==
    IF completedLines = <<>> THEN b
    ELSE convertCompletedLinesToPath(
            [b EXCEPT !.grid[Head(completedLines)] =
                          [x \in 0..(b.width - 1) |-> PATH]],
            Tail(completedLines))

\* the while loop of identifyHazards: pop, skip or visit and push the four
\* neighbours (right, left, down, up)
RECURSIVE FloodFill(_, _, _, _)
FloodFill(b, stack, visited, emptyCluster) ==
    IF stack = <<>> THEN [visited |-> visited, emptyCluster |-> emptyCluster]
    ELSE LET current == stack[Len(stack)]
             rest == SubSeq(stack, 1, Len(stack) - 1)
             cx == current.x
             cy == current.y
         IN  IF cx < 0 \/ cx >= b.width \/ cy < 0 \/ cy >= b.height
                \/ Pos(cx, cy) \in visited \/ b.grid[cy][cx] # EMPTY
             THEN FloodFill(b, rest, visited, emptyCluster)
             ELSE FloodFill(b,
                      rest \o <<Pos(cx + 1, cy), Pos(cx - 1, cy),
                                Pos(cx, cy + 1), Pos(cx, cy - 1)>>,
                      visited \cup {Pos(cx, cy)},
                      Append(emptyCluster, Pos(cx, cy)))

\* a pass that marks the first cell of the cluster only
MarkHazardsFirstCellOnly(b, emptyCluster) ==
    IF emptyCluster = <<>> THEN b
    ELSE [b EXCEPT !.grid[Head(emptyCluster).y][Head(emptyCluster).x] = HAZARD]

\* emptyCluster.forEach(cell => grid[cell.y][cell.x] = HAZARD)
RECURSIVE MarkHazards(_, _)
MarkHazards(b, emptyCluster) ==
    IF emptyCluster = <<>> THEN b
    ELSE MarkHazards(
            [b EXCEPT !.grid[Head(emptyCluster).y][Head(emptyCluster).x] = HAZARD],
            Tail(emptyCluster))

IsHazardClusterBelow3(emptyCluster) ==
    Len(emptyCluster) > 0 /\ Len(emptyCluster) < 3

\* a size test that accepts a cluster of any size
IsHazardClusterOfAnySize(emptyCluster) ==
    Len(emptyCluster) > 0

\* the size test of identifyHazards
IsHazardCluster(emptyCluster) ==
    Len(emptyCluster) > 0 /\ Len(emptyCluster) <= 3

\* the two for loops of identifyHazards, from cell number n (row-major) on
RECURSIVE HazardScan(_, _, _)
HazardScan(b, n, visited) ==
    IF n >= b.width * b.height THEN b
    ELSE LET x == n % b.width
             y == n \div b.width
         IN  IF b.grid[y][x] = EMPTY /\ Pos(x, y) \notin visited
             THEN LET fill == FloodFill(b, <<Pos(x, y)>>, visited, <<>>)
                  IN  HazardScan(
                          IF IsHazardCluster(fill.emptyCluster)
                          THEN MarkHazards(b, fill.emptyCluster)
                          ELSE b,
                          n + 1, fill.visited)
             ELSE HazardScan(b, n + 1, visited)

identifyHazards(b) == HazardScan(b, 0, {})

----------------------------------------------------------------------------
(* piece.ts *)

Cell(shape, y, x) == shape[y + 1][x + 1]
Rows(shape) == Len(shape)
Cols(shape) == Len(shape[1])

PIECES == <<
    [shape |-> << <<1, 1, 1, 1>> >>,               terrainType |-> FOREST],
    [shape |-> << <<2, 0, 0>>, <<2, 2, 2>> >>,     terrainType |-> MOUNTAIN],
    [shape |-> << <<0, 0, 3>>, <<3, 3, 3>> >>,     terrainType |-> WATER],
    [shape |-> << <<1, 1>>, <<1, 1>> >>,           terrainType |-> FOREST],
    [shape |-> << <<0, 2, 0>>, <<2, 2, 2>> >>,     terrainType |-> MOUNTAIN],
    [shape |-> << <<0, 3, 3>>, <<3, 3, 0>> >>,     terrainType |-> WATER],
    [shape |-> << <<1, 1, 0>>, <<0, 1, 1>> >>,     terrainType |-> FOREST] >>

\* Piece.rotate: new row i is column i of the shape read bottom-to-top
\* a quarter turn the other way: new row i is column C-1-i read top-to-bottom
rotateCounterClockwise(shape) ==
    [i \in 1..Cols(shape) |->
        [k \in 1..Rows(shape) |-> shape[k][Cols(shape) + 1 - i]]]

\* a quarter turn that also moves every column one place to the left
rotateShifted(shape) ==
    [i \in 1..Cols(shape) |->
        [k \in 1..Rows(shape) |->
            shape[Rows(shape) + 1 - k][(i % Cols(shape)) + 1]]]

rotate(shape) ==
    [i \in 1..Cols(shape) |->
        [k \in 1..Rows(shape) |-> shape[Rows(shape) + 1 - k][i]]]

\* state/reducers.ts, pieceReducer, ROTATE_PIECE: the same loops over a copy
\* of the shape; a state without a current piece is returned as it is
pieceReducerRotate(piece) ==
    IF piece.shape = <<>> THEN piece
    ELSE [piece EXCEPT !.shape =
            [i \in 1..Len(@[1]) |->
                [j \in 1..Len(@) |-> @[Len(@) + 1 - j][i]]]]

----------------------------------------------------------------------------
(* game.ts: isValidMove *)

\* the two for loops of isValidMove, from shape cell number n (row-major) on
RECURSIVE ValidFrom(_, _, _, _)
ValidFrom(b, shape, position, n) ==
    IF n >= Rows(shape) * Cols(shape) THEN TRUE
    ELSE LET x == n % Cols(shape)
             y == n \div Cols(shape)
             boardX == position.x + x
             boardY == position.y + y
         IN  IF Cell(shape, y, x) # 0
             THEN IF ~isPositionValid(b, boardX, boardY) THEN FALSE
                  ELSE IF getCell(b, boardX, boardY) # EMPTY THEN FALSE
                  ELSE ValidFrom(b, shape, position, n + 1)
             ELSE ValidFrom(b, shape, position, n + 1)

\* a validator that looks at the bounding box only, whatever the cells hold
isValidMoveWholeBox(b, piece, position) ==
    \A y \in 0..(Rows(piece.shape) - 1) : \A x \in 0..(Cols(piece.shape) - 1) :
        /\ isPositionValid(b, position.x + x, position.y + y)
        /\ getCell(b, position.x + x, position.y + y) = EMPTY

isValidMove(b, piece, position) == ValidFrom(b, piece.shape, position, 0)

----------------------------------------------------------------------------
(* game.ts: the game script.  A handler is an operator from the game state *)
(* (a record of the script's variables) to the set of states it can leave, *)
(* one for each outcome of its Math.random() draws.                        *)

\* the board of the game: 10 x 15 in game.ts:6-7, scaled down here
BOARD_WIDTH == 4
BOARD_HEIGHT == 4

\* Math.floor(Math.random() * 3): the rows of the fallback spawn
SPAWN_ROWS == 3
\* the rows scanned for safe havens: BOARD_HEIGHT - 5 .. BOARD_HEIGHT - 1
HAVEN_ROWS == 5
TREASURE_VALUE == 50
HAVEN_BONUS == 100
LINE_SCORE == 100
ENCOUNTER_PENALTY == 50
CAUGHT_PENALTY == 100

\* generatePiece draws one of the first PieceKinds templates
PieceKinds == 2
\* at most MaxPlaced pieces are placed, in all runs together; with the last
\* one placed the player still moves in the first run, and after a restart
\* only the switch-phase key and the enemy timer go on
MaxPlaced == 2
\* the switch-phase key restarts the game at most MaxRuns times
MaxRuns == 1
\* the player makes at most MaxMoves moves that change something
MaxMoves == 2
\* at most MaxTimers enemy steps are pending
MaxTimers == 1
\* at most MaxTreasures treasures and MaxHavens safe havens are drawn
MaxTreasures == 1
MaxHavens == 1

Game ==
    [gamePhase |-> gamePhase, board |-> board, score |-> score,
     linesCompleted |-> linesCompleted, hazardsCount |-> hazardsCount,
     currentPiece |-> currentPiece,
     currentPiecePosition |-> currentPiecePosition,
     playerPosition |-> playerPosition, enemies |-> enemies,
     treasures |-> treasures, timers |-> timers, hung |-> hung,
     placed |-> placed, runs |-> runs, moves |-> moves]

GameBecomes(s) ==
    /\ gamePhase' = s.gamePhase
    /\ board' = s.board
    /\ score' = s.score
    /\ linesCompleted' = s.linesCompleted
    /\ hazardsCount' = s.hazardsCount
    /\ currentPiece' = s.currentPiece
    /\ currentPiecePosition' = s.currentPiecePosition
    /\ playerPosition' = s.playerPosition
    /\ enemies' = s.enemies
    /\ treasures' = s.treasures
    /\ timers' = s.timers
    /\ hung' = s.hung
    /\ placed' = s.placed
    /\ runs' = s.runs
    /\ moves' = s.moves

\* a step of game.ts, which has no drop counter
Becomes(s) ==
    GameBecomes(s) /\ dropCounter' = dropCounter /\ UNCHANGED pageVars

\* the outcomes of all the draws together: UNION sets, taken two sets at a
\* time
RECURSIVE Outcomes(_)
Outcomes(sets) ==
    IF sets = {} THEN {}
    ELSE LET first == CHOOSE outcomes \in sets : TRUE
         IN  first \cup Outcomes(sets \ {first})

NoPiece == [shape |-> <<>>, terrainType |-> EMPTY]

\* for y, for x, if getCell(x, y) === terrainType: the cells found, in
\* row-major order from row y0 on
RECURSIVE CellsFrom(_, _, _)
CellsFrom(b, n, terrainType) ==
    IF n >= b.width * b.height THEN <<>>
    ELSE LET x == n % b.width
             y == n \div b.width
         IN  (IF getCell(b, x, y) = terrainType THEN <<Pos(x, y)>> ELSE <<>>)
             \o CellsFrom(b, n + 1, terrainType)

CellsHolding(b, y0, terrainType) ==
    CellsFrom(b, (IF y0 < 0 THEN 0 ELSE y0) * b.width, terrainType)

\* the subsequences of seq of at most max elements
RECURSIVE Picks(_, _)
Picks(seq, max) ==
    IF seq = <<>> \/ max = 0 THEN {<<>>}
    ELSE Picks(Tail(seq), max)
         \cup {<<Head(seq)>> \o rest : rest \in Picks(Tail(seq), max - 1)}

generatePiece(s) ==
    {[s EXCEPT !.currentPiece = [shape |-> PIECES[i].shape,
                                 terrainType |-> PIECES[i].terrainType],
               !.currentPiecePosition =
                   Pos((BOARD_WIDTH - Cols(PIECES[i].shape)) \div 2, 0)] :
        i \in 1..(IF PieceKinds < Len(PIECES) THEN PieceKinds ELSE Len(PIECES))}

\* the scan of row 0 for the player, from column x on
RECURSIVE ScanTopRow(_, _)
ScanTopRow(s, x) ==
    IF x >= BOARD_WIDTH THEN s
    ELSE IF getCell(s.board, x, 0) # HAZARD /\ getCell(s.board, x, 0) # EMPTY
         THEN [s EXCEPT !.playerPosition = Pos(x, 0)]
         ELSE ScanTopRow(s, x + 1)

\* the do-while of the fallback spawn: the samples that end it
SpawnSamples(s) ==
    {p \in {Pos(x, y) : x \in 0..(BOARD_WIDTH - 1), y \in 0..(SPAWN_ROWS - 1)} :
        getCell(s.board, p.x, p.y) # HAZARD}

\* a setup pass that marks the chosen cells on the grid with the Treasure
\* marker
SetCellsAsTreasure(b, cells, terrainType) ==
    [b EXCEPT !.grid =
        [y \in 0..(b.height - 1) |-> [x \in 0..(b.width - 1) |->
            IF \E i \in 1..Len(cells) : cells[i] = Pos(x, y)
            THEN TREASURE ELSE b.grid[y][x]]]]

RECURSIVE SetCells(_, _, _)
SetCells(b, cells, terrainType) ==
    IF cells = <<>> THEN b
    ELSE SetCells(setCell(b, Head(cells).x, Head(cells).y, terrainType),
                  Tail(cells), terrainType)

prepareAdventurePhaseKeepEnemies(s0) ==
    LET s1 == ScanTopRow(s0, 0)
        fallback == s1.playerPosition.x = 0 /\ s1.playerPosition.y = 0
        \* the rest of the function, for every start the first part may give
        Rest(starts) ==
            {[s1 EXCEPT
                !.playerPosition = p,
                !.enemies = @ \o CellsHolding(s1.board, 0, HAZARD),
                !.treasures = [i \in 1..Len(t) |->
                                 [x |-> t[i].x, y |-> t[i].y,
                                  value |-> TREASURE_VALUE]],
                !.board = SetCells(s1.board, h, SAFE_HAVEN)] :
              p \in starts,
              t \in Picks(CellsHolding(s1.board, 0, PATH), MaxTreasures),
              h \in Picks(CellsHolding(s1.board, BOARD_HEIGHT - HAVEN_ROWS,
                                       PATH), MaxHavens)}
    IN  IF ~fallback THEN Rest({s1.playerPosition})
        ELSE IF SpawnSamples(s1) = {} THEN {[s1 EXCEPT !.hung = TRUE]}
        ELSE Rest(SpawnSamples(s1))

prepareAdventurePhase(s0) ==
    LET s1 == ScanTopRow(s0, 0)
        fallback == s1.playerPosition.x = 0 /\ s1.playerPosition.y = 0
        \* the rest of the function, for every start the first part may give
        Rest(starts) ==
            {[s1 EXCEPT
                !.playerPosition = p,
                !.enemies = CellsHolding(s1.board, 0, HAZARD),
                !.treasures = [i \in 1..Len(t) |->
                                 [x |-> t[i].x, y |-> t[i].y,
                                  value |-> TREASURE_VALUE]],
                !.board = SetCells(s1.board, h, SAFE_HAVEN)] :
              p \in starts,
              t \in Picks(CellsHolding(s1.board, 0, PATH), MaxTreasures),
              h \in Picks(CellsHolding(s1.board, BOARD_HEIGHT - HAVEN_ROWS,
                                       PATH), MaxHavens)}
    IN  IF ~fallback THEN Rest({s1.playerPosition})
        ELSE IF SpawnSamples(s1) = {} THEN {[s1 EXCEPT !.hung = TRUE]}
        ELSE Rest(SpawnSamples(s1))

switchPhase(s) ==
    IF s.gamePhase = "BUILDING"
    THEN prepareAdventurePhase([s EXCEPT !.gamePhase = "ADVENTURE"])
    ELSE generatePiece([s EXCEPT !.gamePhase = "BUILDING",
                                 !.board = GameBoard(BOARD_WIDTH, BOARD_HEIGHT),
                                 !.score = 0,
                                 !.linesCompleted = 0,
                                 !.hazardsCount = 0,
                                 !.runs = @ + 1])

\* the stamping loops of placePiece, from shape cell number n on
RECURSIVE Stamp(_, _, _, _)
Stamp(b, piece, position, n) ==
    IF n >= Rows(piece.shape) * Cols(piece.shape) THEN b
    ELSE LET x == n % Cols(piece.shape)
             y == n \div Cols(piece.shape)
             boardX == position.x + x
             boardY == position.y + y
         IN  Stamp(IF Cell(piece.shape, y, x) # 0
                      /\ isPositionValid(b, boardX, boardY)
                   THEN setCell(b, boardX, boardY, piece.terrainType)
                   ELSE b,
                   piece, position, n + 1)

CountHazards(b) ==
    Cardinality({p \in Cells(b) : At(b, p) = HAZARD})

placePieceHazardsFirst(s) ==
    IF s.currentPiece = NoPiece THEN {s}
    ELSE
    LET stamped == identifyHazards(
                       Stamp(s.board, s.currentPiece, s.currentPiecePosition, 0))
        completedLines == checkCompletedLines(stamped)
        marked == IF Len(completedLines) > 0
                  THEN convertCompletedLinesToPath(stamped, completedLines)
                  ELSE stamped
        s1 == [s EXCEPT
                 !.board = marked,
                 !.linesCompleted = @ + Len(completedLines),
                 !.score = @ + Len(completedLines) * LINE_SCORE,
                 !.hazardsCount = CountHazards(marked),
                 !.placed = @ + 1]
    IN  Outcomes(
            {IF ~isValidMove(s2.board, s2.currentPiece, s2.currentPiecePosition)
             THEN switchPhase(s2) ELSE {s2} : s2 \in generatePiece(s1)})

placePieceCheckOldPiece(s) ==
    IF s.currentPiece = NoPiece THEN {s}
    ELSE
    LET stamped == Stamp(s.board, s.currentPiece, s.currentPiecePosition, 0)
        completedLines == checkCompletedLines(stamped)
        marked == identifyHazards(
                      IF Len(completedLines) > 0
                      THEN convertCompletedLinesToPath(stamped, completedLines)
                      ELSE stamped)
        s1 == [s EXCEPT
                 !.board = marked,
                 !.linesCompleted = @ + Len(completedLines),
                 !.score = @ + Len(completedLines) * LINE_SCORE,
                 !.hazardsCount = CountHazards(marked),
                 !.placed = @ + 1]
    IN  Outcomes(
            {IF ~isValidMove(s1.board, s1.currentPiece, s1.currentPiecePosition)
             THEN switchPhase(s2) ELSE {s2} : s2 \in generatePiece(s1)})

placePiece(s) ==
    IF s.currentPiece = NoPiece THEN {s}
    ELSE
    LET stamped == Stamp(s.board, s.currentPiece, s.currentPiecePosition, 0)
        completedLines == checkCompletedLines(stamped)
        converted == IF Len(completedLines) > 0
                     THEN convertCompletedLinesToPath(stamped, completedLines)
                     ELSE stamped
        marked == identifyHazards(converted)
        s1 == [s EXCEPT
                 !.board = marked,
                 !.linesCompleted =
                     IF Len(completedLines) > 0 THEN @ + Len(completedLines)
                     ELSE @,
                 !.score =
                     IF Len(completedLines) > 0
                     THEN @ + Len(completedLines) * LINE_SCORE ELSE @,
                 !.hazardsCount = CountHazards(marked),
                 !.placed = @ + 1]
    IN  Outcomes(
            {IF ~isValidMove(s2.board, s2.currentPiece, s2.currentPiecePosition)
             THEN switchPhase(s2) ELSE {s2} : s2 \in generatePiece(s1)})

moveEnemiesRestartOnCatch(s) ==
    IF \E i \in 1..Len(s.enemies) :
          /\ s.enemies[i].x = s.playerPosition.x
          /\ (s.enemies[i].y = s.playerPosition.y + 1
              \/ s.enemies[i].y + 1 = s.playerPosition.y)
          /\ getCell(s.board, s.playerPosition.x, s.playerPosition.y) # EMPTY
          /\ s.gamePhase = "ADVENTURE"
    THEN switchPhase(s)
    ELSE {s}

EnemyStepThroughHazard(s, i, alongX) ==
    LET enemy == s.enemies[i]
        dx == s.playerPosition.x - enemy.x
        dy == s.playerPosition.y - enemy.y
        moveX == IF alongX THEN (IF dx # 0 THEN (IF dx > 0 THEN 1 ELSE -1) ELSE 0)
                 ELSE 0
        moveY == IF alongX THEN 0
                 ELSE (IF dy # 0 THEN (IF dy > 0 THEN 1 ELSE -1) ELSE 0)
        newX == enemy.x + moveX
        newY == enemy.y + moveY
    IN  IF /\ isPositionValid(s.board, newX, newY)
           /\ getCell(s.board, newX, newY) # EMPTY
        THEN IF newX = s.playerPosition.x /\ newY = s.playerPosition.y
             THEN [s EXCEPT !.score = IF @ - CAUGHT_PENALTY < 0 THEN 0
                                       ELSE @ - CAUGHT_PENALTY]
             ELSE [s EXCEPT !.enemies[i] = Pos(newX, newY)]
        ELSE s

\* the body of moveEnemies' forEach for enemy number i, for each draw
EnemyStep(s, i, alongX) ==
    LET enemy == s.enemies[i]
        dx == s.playerPosition.x - enemy.x
        dy == s.playerPosition.y - enemy.y
        moveX == IF alongX THEN (IF dx # 0 THEN (IF dx > 0 THEN 1 ELSE -1) ELSE 0)
                 ELSE 0
        moveY == IF alongX THEN 0
                 ELSE (IF dy # 0 THEN (IF dy > 0 THEN 1 ELSE -1) ELSE 0)
        newX == enemy.x + moveX
        newY == enemy.y + moveY
    IN  IF /\ isPositionValid(s.board, newX, newY)
           /\ getCell(s.board, newX, newY) # EMPTY
           /\ getCell(s.board, newX, newY) # HAZARD
        THEN IF newX = s.playerPosition.x /\ newY = s.playerPosition.y
             THEN [s EXCEPT !.score = IF @ - CAUGHT_PENALTY < 0 THEN 0
                                       ELSE @ - CAUGHT_PENALTY]
             ELSE [s EXCEPT !.enemies[i] = Pos(newX, newY)]
        ELSE s

RECURSIVE EnemiesFrom(_, _)
EnemiesFrom(s, i) ==
    IF i > Len(s.enemies) THEN {s}
    ELSE UNION {EnemiesFrom(EnemyStep(s, i, alongX), i + 1) :
                   alongX \in BOOLEAN}

moveEnemies(s) == EnemiesFrom(s, 1)

IndexOf(seq, x, y) ==
    IF \E i \in 1..Len(seq) : seq[i].x = x /\ seq[i].y = y
    THEN CHOOSE i \in 1..Len(seq) :
            /\ seq[i].x = x /\ seq[i].y = y
            /\ \A j \in 1..(i - 1) : ~(seq[j].x = x /\ seq[j].y = y)
    ELSE 0

Splice(seq, i) == SubSeq(seq, 1, i - 1) \o SubSeq(seq, i + 1, Len(seq))

\* a player whose meeting with an enemy also schedules an enemy step
movePlayerMeetingSchedules(s, dx, dy) ==
    LET newX == s.playerPosition.x + dx
        newY == s.playerPosition.y + dy
        treasureIndex == IndexOf(s.treasures, newX, newY)
        s1 == IF treasureIndex # 0
              THEN [s EXCEPT !.score = @ + s.treasures[treasureIndex].value,
                             !.treasures = Splice(@, treasureIndex)]
              ELSE s
        s2 == [s1 EXCEPT !.playerPosition = Pos(newX, newY)]
        s3 == IF getCell(s2.board, newX, newY) = SAFE_HAVEN
              THEN [s2 EXCEPT !.score = @ + HAVEN_BONUS]
              ELSE s2
    IN  IF ~isPositionValid(s.board, newX, newY) THEN {s}
        ELSE IF getCell(s.board, newX, newY) = EMPTY
                \/ getCell(s.board, newX, newY) = HAZARD THEN {s}
        ELSE IF IndexOf(s.enemies, newX, newY) # 0
             THEN {[s EXCEPT !.score = IF @ - ENCOUNTER_PENALTY < 0 THEN 0
                                        ELSE @ - ENCOUNTER_PENALTY,
                             !.timers = @ + 1]}
        ELSE IF newY = BOARD_HEIGHT - 1 THEN switchPhase(s3)
        ELSE {[s3 EXCEPT !.timers = @ + 1]}

\* a player who leaves a trail: the cell moved onto becomes Path
movePlayerLeavesTrail(s, dx, dy) ==
    LET newX == s.playerPosition.x + dx
        newY == s.playerPosition.y + dy
        treasureIndex == IndexOf(s.treasures, newX, newY)
        s1 == IF treasureIndex # 0
              THEN [s EXCEPT !.score = @ + s.treasures[treasureIndex].value,
                             !.treasures = Splice(@, treasureIndex)]
              ELSE s
        s2 == [s1 EXCEPT !.playerPosition = Pos(newX, newY),
                         !.board = setCell(@, newX, newY, PATH)]
        s3 == IF getCell(s.board, newX, newY) = SAFE_HAVEN
              THEN [s2 EXCEPT !.score = @ + HAVEN_BONUS]
              ELSE s2
    IN  IF ~isPositionValid(s.board, newX, newY) THEN {s}
        ELSE IF getCell(s.board, newX, newY) = EMPTY
                \/ getCell(s.board, newX, newY) = HAZARD THEN {s}
        ELSE IF IndexOf(s.enemies, newX, newY) # 0
             THEN {[s EXCEPT !.score = IF @ - ENCOUNTER_PENALTY < 0 THEN 0
                                        ELSE @ - ENCOUNTER_PENALTY]}
        ELSE IF newY = BOARD_HEIGHT - 1 THEN switchPhase(s3)
        ELSE {[s3 EXCEPT !.timers = @ + 1]}

\* a move whose penalty is not clamped
movePlayerUnclamped(s, dx, dy) ==
    LET newX == s.playerPosition.x + dx
        newY == s.playerPosition.y + dy
        treasureIndex == IndexOf(s.treasures, newX, newY)
        s1 == IF treasureIndex # 0
              THEN [s EXCEPT !.score = @ + s.treasures[treasureIndex].value,
                             !.treasures = Splice(@, treasureIndex)]
              ELSE s
        s2 == [s1 EXCEPT !.playerPosition = Pos(newX, newY)]
        s3 == IF getCell(s2.board, newX, newY) = SAFE_HAVEN
              THEN [s2 EXCEPT !.score = @ + HAVEN_BONUS]
              ELSE s2
    IN  IF ~isPositionValid(s.board, newX, newY) THEN {s}
        ELSE IF getCell(s.board, newX, newY) = EMPTY
                \/ getCell(s.board, newX, newY) = HAZARD THEN {s}
        ELSE IF IndexOf(s.enemies, newX, newY) # 0
             THEN {[s EXCEPT !.score = @ - ENCOUNTER_PENALTY]}
        ELSE IF newY = BOARD_HEIGHT - 1 THEN switchPhase(s3)
        ELSE {[s3 EXCEPT !.timers = @ + 1]}

movePlayer(s, dx, dy) ==
    LET newX == s.playerPosition.x + dx
        newY == s.playerPosition.y + dy
        treasureIndex == IndexOf(s.treasures, newX, newY)
        s1 == IF treasureIndex # 0
              THEN [s EXCEPT !.score = @ + s.treasures[treasureIndex].value,
                             !.treasures = Splice(@, treasureIndex)]
              ELSE s
        s2 == [s1 EXCEPT !.playerPosition = Pos(newX, newY)]
        s3 == IF getCell(s2.board, newX, newY) = SAFE_HAVEN
              THEN [s2 EXCEPT !.score = @ + HAVEN_BONUS]
              ELSE s2
    IN  IF ~isPositionValid(s.board, newX, newY) THEN {s}
        ELSE IF getCell(s.board, newX, newY) = EMPTY
                \/ getCell(s.board, newX, newY) = HAZARD THEN {s}
        ELSE IF IndexOf(s.enemies, newX, newY) # 0
             THEN {[s EXCEPT !.score = IF @ - ENCOUNTER_PENALTY < 0 THEN 0
                                        ELSE @ - ENCOUNTER_PENALTY]}
        ELSE IF newY = BOARD_HEIGHT - 1 THEN switchPhase(s3)
        ELSE {[s3 EXCEPT !.timers = @ + 1]}

\* a rotation that is kept whether or not the turned piece is a valid move
rotatePieceNoRevert(s) ==
    IF s.gamePhase # "BUILDING" \/ s.currentPiece = NoPiece THEN {s}
    ELSE {[s EXCEPT !.currentPiece.shape = rotate(@)]}

rotatePiece(s) ==
    IF s.gamePhase # "BUILDING" \/ s.currentPiece = NoPiece THEN {s}
    ELSE LET rotated == [s.currentPiece EXCEPT !.shape = rotate(@)]
         IN  IF ~isValidMove(s.board, rotated, s.currentPiecePosition)
             THEN {s}
             ELSE {[s EXCEPT !.currentPiece = rotated]}

\* movePieceLeft (dx = -1) and movePieceRight (dx = 1)
movePieceSideways(s, dx) ==
    IF s.gamePhase = "BUILDING" /\ s.currentPiece # NoPiece
    THEN LET newPosition == [s.currentPiecePosition EXCEPT !.x = @ + dx]
         IN  IF isValidMove(s.board, s.currentPiece, newPosition)
             THEN {[s EXCEPT !.currentPiecePosition = newPosition]}
             ELSE {s}
    ELSE IF s.gamePhase = "ADVENTURE" THEN movePlayer(s, dx, 0)
    ELSE {s}

movePieceLeft(s) == movePieceSideways(s, -1)
movePieceRight(s) == movePieceSideways(s, 1)

movePieceDown(s) ==
    IF s.gamePhase = "BUILDING" /\ s.currentPiece # NoPiece
    THEN LET newPosition == [s.currentPiecePosition EXCEPT !.y = @ + 1]
         IN  IF isValidMove(s.board, s.currentPiece, newPosition)
             THEN {[s EXCEPT !.currentPiecePosition = newPosition]}
             ELSE placePiece(s)
    ELSE IF s.gamePhase = "ADVENTURE" THEN movePlayer(s, 0, 1)
    ELSE {s}

\* a drop that goes down one row at most
DropFromOneRow(s) ==
    IF isValidMove(s.board, s.currentPiece,
                   [s.currentPiecePosition EXCEPT !.y = @ + 1])
    THEN [s EXCEPT !.currentPiecePosition.y = @ + 1]
    ELSE s

\* the while loop of dropPiece
RECURSIVE DropFrom(_)
DropFrom(s) ==
    IF isValidMove(s.board, s.currentPiece,
                   [s.currentPiecePosition EXCEPT !.y = @ + 1])
    THEN DropFrom([s EXCEPT !.currentPiecePosition.y = @ + 1])
    ELSE s

dropPiece(s) ==
    IF s.gamePhase # "BUILDING" \/ s.currentPiece = NoPiece THEN {s}
    ELSE placePiece(DropFrom(s))

----------------------------------------------------------------------------
(* The state after the module of game.ts has loaded, before generatePiece *)

NoCall == [op |-> "none", before |-> <<>>, args |-> <<>>, ret |-> <<>>]

\* no loading layer yet. shown: the layer is in the layers of the renderer;
\* assets: the keys given to loadAssets; timeout: the setTimeout of update is
\* pending; resolved: the promise of loadAssets is resolved; loads: the calls
\* of loadAssets so far (bounds the exploration)
NoLayer ==
    [shown |-> FALSE, assets |-> {}, progress |-> 0, targetProgress |-> 0,
     isLoading |-> FALSE, timeout |-> FALSE, resolved |-> FALSE, loads |-> 0]

\* new Map() of events.ts:11; the fields of AssetLoader (events.ts:148-152),
\* with the keys whose promise was rejected
PageInit ==
    /\ events = <<>>
    /\ assetLoader = [assets |-> {}, loadPromises |-> {}, rejected |-> {},
                      loadingProgress |-> 0, totalAssets |-> 0,
                      loadedAssets |-> 0]
    /\ loadingLayer = NoLayer

GameVarsInit ==
    /\ gamePhase = "BUILDING"
    /\ score = 0
    /\ linesCompleted = 0
    /\ hazardsCount = 0
    /\ currentPiece = NoPiece
    /\ currentPiecePosition = Pos(0, 0)
    /\ playerPosition = Pos(0, 0)
    /\ enemies = <<>>
    /\ treasures = <<>>
    /\ timers = 0
    /\ hung = FALSE
    /\ placed = 0
    /\ runs = 0
    /\ moves = 0
    /\ dropCounter = 0
    /\ PageInit

----------------------------------------------------------------------------
(* Boards given to the board functions: every cell is Empty or holds the   *)
(* terrain its place selects, so that each board mixes all the terrain     *)
(* values a grid can hold.                                                 *)

StoredTerrain == <<FOREST, MOUNTAIN, WATER, PATH, HAZARD, SAFE_HAVEN>>

TerrainAt(width, x, y) ==
    StoredTerrain[((x + y * width) % Len(StoredTerrain)) + 1]

BoardWith(width, height, empties) ==
    [width |-> width, height |-> height,
     grid |-> [y \in 0..(height - 1) |-> [x \in 0..(width - 1) |->
                 IF Pos(x, y) \in empties THEN EMPTY
                 ELSE TerrainAt(width, x, y)]]]

TestSizes ==
    {wh \in (1..MaxCells) \X (1..MaxCells) : wh[1] * wh[2] <= MaxCells}

TestBoards ==
    UNION {{BoardWith(wh[1], wh[2], e) :
              e \in SUBSET Cells(GameBoard(wh[1], wh[2]))} : wh \in TestSizes}

\* the board of the scenario: new GameBoard(10, 15)
ExampleBoard == GameBoard(10, 15)

\* the boards with room for a piece and few non-Empty cells
SparseBoards ==
    {b \in TestBoards :
        /\ b.width > 1 /\ b.height > 1
        /\ Cardinality({p \in Cells(b) : At(b, p) # EMPTY}) <= MaxFilled}

\* the templates, as generated and after one rotation
TestPieces ==
    {PIECES[i] : i \in 1..Len(PIECES)}
    \cup {[shape |-> rotate(PIECES[i].shape),
           terrainType |-> PIECES[i].terrainType] : i \in 1..Len(PIECES)}

\* the row lists given to convertCompletedLinesToPath: up to two rows, in
\* either order, a row possibly twice
RowLists(b) ==
    {<<>>} \cup {<<y>> : y \in 0..(b.height - 1)}
    \cup {<<y1, y2>> : y1 \in 0..(b.height - 1), y2 \in 0..(b.height - 1)}

----------------------------------------------------------------------------
(* identifyHazards under test *)

HazardInit ==
    /\ GameVarsInit
    /\ board \in TestBoards
    /\ call = NoCall

IdentifyHazardsCall ==
    /\ board' = identifyHazards(board)
    /\ call' = [op |-> "identifyHazards", before |-> board,
                args |-> <<>>, ret |-> <<>>]
    /\ UNCHANGED gameVars

HazardNext == IdentifyHazardsCall

HazardSpec == HazardInit /\ [][HazardNext]_vars

(* checkCompletedLines and convertCompletedLinesToPath under test *)

LinesInit ==
    /\ GameVarsInit
    /\ board \in TestBoards
    /\ call = NoCall

CheckCompletedLinesCall ==
    /\ call.op = "none"
    /\ board' = board
    /\ call' = [op |-> "checkCompletedLines", before |-> board,
                args |-> <<>>, ret |-> checkCompletedLines(board)]
    /\ UNCHANGED gameVars

ConvertCompletedLinesToPathCall ==
    /\ call.op = "none"
    /\ \E rows \in RowLists(board) :
         /\ board' = convertCompletedLinesToPath(board, rows)
         /\ call' = [op |-> "convertCompletedLinesToPath", before |-> board,
                     args |-> rows, ret |-> <<>>]
    /\ UNCHANGED gameVars

LinesNext == CheckCompletedLinesCall \/ ConvertCompletedLinesToPathCall

LinesSpec == LinesInit /\ [][LinesNext]_vars

(* isValidMove under test *)

ValidInit ==
    /\ GameVarsInit
    /\ board \in SparseBoards \cup {ExampleBoard}
    /\ call = NoCall

IsValidMoveCall ==
    /\ call.op = "none"
    /\ \E piece \in TestPieces :
       \E x \in (-1)..board.width :
       \E y \in (-1)..board.height :
         /\ call' = [op |-> "isValidMove", before |-> board,
                     args |-> <<piece, Pos(x, y)>>,
                     ret |-> isValidMove(board, piece, Pos(x, y))]
         /\ board' = board
    /\ UNCHANGED gameVars

ValidNext == IsValidMoveCall

ValidSpec == ValidInit /\ [][ValidNext]_vars

(* isPositionValid, getCell and setCell under test: coordinates inside the *)
(* grid and up to one cell outside it on every side                        *)

CellInit ==
    /\ GameVarsInit
    /\ board \in SparseBoards
    /\ call = NoCall

IsPositionValidCall ==
    /\ call.op = "none"
    /\ \E x \in (-1)..board.width, y \in (-1)..board.height :
         call' = [op |-> "isPositionValid", before |-> board,
                  args |-> <<x, y>>, ret |-> isPositionValid(board, x, y)]
    /\ board' = board
    /\ UNCHANGED gameVars

GetCellCall ==
    /\ call.op = "none"
    /\ \E x \in (-1)..board.width, y \in (-1)..board.height :
         call' = [op |-> "getCell", before |-> board,
                  args |-> <<x, y>>, ret |-> getCell(board, x, y)]
    /\ board' = board
    /\ UNCHANGED gameVars

SetCellCall ==
    /\ call.op = "none"
    /\ \E x \in (-1)..board.width, y \in (-1)..board.height,
          terrainType \in {EMPTY, FOREST, HAZARD} :
         /\ board' = setCell(board, x, y, terrainType)
         /\ call' = [op |-> "setCell", before |-> board,
                     args |-> <<x, y, terrainType>>, ret |-> <<>>]
    /\ UNCHANGED gameVars

CellNext == IsPositionValidCall \/ GetCellCall \/ SetCellCall

CellSpec == CellInit /\ [][CellNext]_vars

----------------------------------------------------------------------------
(* Piece.rotate under test: every rectangular shape of at most             *)
(* MaxShapeCells cells, turned up to MaxRotations times; the log keeps the *)
(* piece before the first turn and the piece before the last one           *)

MaxShapeCells == 6
MaxRotations == 4

ShapeValues == {0, 1, 3}

RectangularShapes ==
    UNION {[1..r -> [1..c -> ShapeValues]] :
             <<r, c>> \in {d \in (1..MaxShapeCells) \X (1..MaxShapeCells) :
                             d[1] * d[2] <= MaxShapeCells}}

Rotations == IF call.op = "none" THEN 0 ELSE call.args[1]

Turned(op, piece) ==
    [op |-> op,
     before |-> <<IF call.op = "none" THEN currentPiece ELSE call.before[1],
                  currentPiece>>,
     args |-> <<Rotations + 1>>,
     ret |-> piece]

RotateInit ==
    /\ gamePhase = "BUILDING"
    /\ board = GameBoard(BOARD_WIDTH, BOARD_HEIGHT)
    /\ score = 0
    /\ linesCompleted = 0
    /\ hazardsCount = 0
    /\ \E shape \in RectangularShapes, terrainType \in {FOREST, WATER},
          position \in {Pos(0, 0), Pos(1, 2)} :
         currentPiece = [shape |-> shape, terrainType |-> terrainType,
                         position |-> position]
    /\ currentPiecePosition = Pos(0, 0)
    /\ playerPosition = Pos(0, 0)
    /\ enemies = <<>>
    /\ treasures = <<>>
    /\ timers = 0
    /\ hung = FALSE
    /\ placed = 0
    /\ runs = 0
    /\ moves = 0
    /\ dropCounter = 0
    /\ PageInit
    /\ call = NoCall

RotateCall ==
    /\ Rotations < MaxRotations
    /\ currentPiece' = [currentPiece EXCEPT !.shape = rotate(@)]
    /\ call' = Turned("rotate", currentPiece')
    /\ UNCHANGED <<gamePhase, board, score, linesCompleted, hazardsCount,
                   currentPiecePosition, playerPosition, enemies, treasures,
                   timers, hung, placed, runs, moves, dropCounter,
                   events, assetLoader, loadingLayer>>

ReducerRotateCall ==
    /\ Rotations < MaxRotations
    /\ currentPiece' = pieceReducerRotate(currentPiece)
    /\ call' = Turned("ROTATE_PIECE", currentPiece')
    /\ UNCHANGED <<gamePhase, board, score, linesCompleted, hazardsCount,
                   currentPiecePosition, playerPosition, enemies, treasures,
                   timers, hung, placed, runs, moves, dropCounter,
                   events, assetLoader, loadingLayer>>

RotateNext == RotateCall \/ ReducerRotateCall

RotateSpec == RotateInit /\ [][RotateNext]_vars

----------------------------------------------------------------------------
(* EventEmitter (state/events.ts) under test: one event, up to             *)
(* MaxCallbacks callbacks. A callback is [id, once, throws]: subscribed    *)
(* with on or with once, and throwing or not when it is called. A function *)
(* is subscribed at most once at a time.                                   *)

MaxCallbacks == 3

Callbacks == [id : 1..MaxCallbacks, once : BOOLEAN, throws : BOOLEAN]

\* callbacks.indexOf(callback), 0 for -1
indexOf(callbacks, callback) ==
    IF \E i \in 1..Len(callbacks) : callbacks[i] = callback
    THEN CHOOSE i \in 1..Len(callbacks) :
            /\ callbacks[i] = callback
            /\ \A j \in 1..(i - 1) : callbacks[j] # callback
    ELSE 0

\* the function that on returns
unsubscribe(callbacks, callback) ==
    IF indexOf(callbacks, callback) # 0
    THEN Splice(callbacks, indexOf(callbacks, callback))
    ELSE callbacks

\* the array after the call of the callback inside the try of emit: the
\* wrapper of once unsubscribes itself and then calls the function; what the
\* function throws is caught
Called(callbacks, callback) ==
    IF callback.once THEN unsubscribe(callbacks, callback) ELSE callbacks

\* callbacks.forEach of emit from index k on: the length is read once, at
\* the start, and an index that is no longer in the array is passed over
RECURSIVE forEach(_, _, _, _)
forEach(callbacks, k, len, called) ==
    IF k >= len THEN [callbacks |-> callbacks, called |-> called]
    ELSE IF k >= Len(callbacks) THEN forEach(callbacks, k + 1, len, called)
    ELSE forEach(Called(callbacks, callbacks[k + 1]), k + 1, len,
                 Append(called, callbacks[k + 1].id))

emit(callbacks) == forEach(callbacks, 0, Len(callbacks), <<>>)

\* all the variables but the callbacks and the log
allButEvents ==
    <<gamePhase, board, score, linesCompleted, hazardsCount, currentPiece,
      currentPiecePosition, playerPosition, enemies, treasures, timers,
      hung, placed, runs, moves, dropCounter, assetLoader, loadingLayer>>

EmitInit ==
    /\ GameVarsInit
    /\ board = GameBoard(BOARD_WIDTH, BOARD_HEIGHT)
    /\ call = NoCall

\* the function is not subscribed at present
Fresh(callback) ==
    \A i \in 1..Len(events) : events[i].id # callback.id

OnCall ==
    /\ Len(events) < MaxCallbacks
    /\ \E callback \in Callbacks :
          /\ ~callback.once
          /\ Fresh(callback)
          /\ events' = Append(events, callback)
    /\ call' = [op |-> "on", before |-> events, args |-> <<>>, ret |-> <<>>]
    /\ UNCHANGED allButEvents

\* once subscribes, with on, a wrapper of the function
OnceCall ==
    /\ Len(events) < MaxCallbacks
    /\ \E callback \in Callbacks :
          /\ callback.once
          /\ Fresh(callback)
          /\ events' = Append(events, callback)
    /\ call' = [op |-> "once", before |-> events, args |-> <<>>, ret |-> <<>>]
    /\ UNCHANGED allButEvents

\* a call, outside emit, of the function that on or once returned
UnsubscribeCall ==
    /\ \E i \in 1..Len(events) : events' = unsubscribe(events, events[i])
    /\ call' = [op |-> "unsubscribe", before |-> events,
                args |-> <<>>, ret |-> <<>>]
    /\ UNCHANGED allButEvents

\* the log keeps the array as it was when emit was called and the ids of the
\* callbacks emit called, in the order of the calls
EmitCall ==
    /\ events' = emit(events).callbacks
    /\ call' = [op |-> "emit", before |-> events,
                args |-> <<>>, ret |-> emit(events).called]
    /\ UNCHANGED allButEvents

OffCall ==
    /\ events' = <<>>
    /\ call' = [op |-> "off", before |-> events, args |-> <<>>, ret |-> <<>>]
    /\ UNCHANGED allButEvents

EmitNext == OnCall \/ OnceCall \/ UnsubscribeCall \/ EmitCall \/ OffCall

EmitSpec == EmitInit /\ [][EmitNext]_vars

----------------------------------------------------------------------------
(* CanvasRenderer.loadAssets with the loading layer and the asset loader.  *)
(* A progress is a number of WHOLE-ths: WHOLE stands for the progress 1.   *)

WHOLE == 4

\* the steps of the progress bar in one frame,
\* progressSpeed * (deltaTime / 16.67)
ProgressSteps == {1, 3}

AssetKeys == {"a", "b"}

MaxLoads == 2

\* AssetLoader.updateProgress
updateProgress(loader) ==
    [loader EXCEPT !.loadingProgress =
        IF loader.totalAssets > 0
        THEN (loader.loadedAssets * WHOLE) \div loader.totalAssets
        ELSE WHOLE]

\* AssetLoader.loadAssets: loadImage, loadAudio or loadJSON for each asset;
\* a cached key and a key that is being loaded start nothing
RECURSIVE loaderLoadAssets(_, _)
loaderLoadAssets(loader, assets) ==
    IF assets = {} THEN loader
    ELSE LET key == CHOOSE k \in assets : TRUE
             started == IF key \in loader.assets \/ key \in loader.loadPromises
                        THEN loader
                        ELSE [loader EXCEPT !.totalAssets = @ + 1,
                                            !.loadPromises = @ \cup {key}]
         IN  loaderLoadAssets(started, assets \ {key})

\* LoadingLayer.update
layerUpdate(layer, loader, step) ==
    LET targetProgress == loader.loadingProgress
        animated == IF layer.progress < targetProgress
                    THEN IF layer.progress + step > targetProgress
                         THEN targetProgress ELSE layer.progress + step
                    ELSE layer.progress
        updated == [layer EXCEPT !.targetProgress = targetProgress,
                                 !.progress = animated]
    IN  IF updated.isLoading /\ updated.progress >= WHOLE
        THEN [updated EXCEPT !.isLoading = FALSE, !.timeout = TRUE]
        ELSE updated

\* all the variables but the loader, the layer and the log
allButLoading ==
    <<gamePhase, board, score, linesCompleted, hazardsCount, currentPiece,
      currentPiecePosition, playerPosition, enemies, treasures, timers,
      hung, placed, runs, moves, dropCounter, events>>

LoadInit ==
    /\ GameVarsInit
    /\ board = GameBoard(BOARD_WIDTH, BOARD_HEIGHT)
    /\ call = NoCall

\* CanvasRenderer.loadAssets(assets), when no loading layer is shown
LoadAssetsCall ==
    /\ ~loadingLayer.shown
    /\ loadingLayer.loads < MaxLoads
    /\ \E assets \in SUBSET AssetKeys :
          /\ loadingLayer' = [shown |-> TRUE, assets |-> assets,
                              progress |-> 0, targetProgress |-> 0,
                              isLoading |-> TRUE, timeout |-> FALSE,
                              resolved |-> FALSE,
                              loads |-> loadingLayer.loads + 1]
          /\ assetLoader' = loaderLoadAssets(assetLoader, assets)
    /\ call' = [NoCall EXCEPT !.op = "loadAssets"]
    /\ UNCHANGED allButLoading

\* image.onload and its like: the asset is cached and counted
AssetLoaded ==
    /\ \E key \in assetLoader.loadPromises
                     \ (assetLoader.assets \cup assetLoader.rejected) :
          assetLoader' = updateProgress(
              [assetLoader EXCEPT !.assets = @ \cup {key},
                                  !.loadedAssets = @ + 1])
    /\ call' = [NoCall EXCEPT !.op = "onload"]
    /\ UNCHANGED <<allButLoading, loadingLayer>>

\* image.onerror and its like: the promise of the key is rejected
AssetFailed ==
    /\ \E key \in assetLoader.loadPromises
                     \ (assetLoader.assets \cup assetLoader.rejected) :
          assetLoader' = [assetLoader EXCEPT !.rejected = @ \cup {key}]
    /\ call' = [NoCall EXCEPT !.op = "onerror"]
    /\ UNCHANGED <<allButLoading, loadingLayer>>

\* CanvasRenderer.update: a frame updates the layers of the renderer
RendererUpdate ==
    /\ loadingLayer.shown
    /\ \E step \in ProgressSteps :
          loadingLayer' = layerUpdate(loadingLayer, assetLoader, step)
    /\ call' = [NoCall EXCEPT !.op = "update"]
    /\ UNCHANGED <<allButLoading, assetLoader>>

\* the timer of update fires: onLoadComplete removes the layer and resolves
\* the promise
LoadComplete ==
    /\ loadingLayer.timeout
    /\ loadingLayer' = [loadingLayer EXCEPT !.timeout = FALSE,
                                            !.shown = FALSE,
                                            !.resolved = TRUE]
    /\ call' = [NoCall EXCEPT !.op = "onLoadComplete"]
    /\ UNCHANGED <<allButLoading, assetLoader>>

LoadNext ==
    \/ LoadAssetsCall
    \/ AssetLoaded
    \/ AssetFailed
    \/ RendererUpdate
    \/ LoadComplete

\* update keeps being called each frame, and a timer that is set fires
LoadSpec ==
    /\ LoadInit /\ [][LoadNext]_vars
    /\ WF_<<assetLoader, loadingLayer>>(RendererUpdate)
    /\ WF_vars(LoadComplete)

----------------------------------------------------------------------------
(* The game: the inputs of handleKeyDown and the enemy timer *)

\* the last input: the switch-phase key, another key of the game, or the
\* timer of the enemies
Input(op) == [op |-> op, before |-> <<>>, args |-> <<>>, ret |-> <<>>]

\* the module has loaded: initializeGame has generated the first piece
Init ==
    /\ \E s \in generatePiece(
              [gamePhase |-> "BUILDING",
               board |-> GameBoard(BOARD_WIDTH, BOARD_HEIGHT),
               score |-> 0, linesCompleted |-> 0, hazardsCount |-> 0,
               currentPiece |-> NoPiece, currentPiecePosition |-> Pos(0, 0),
               playerPosition |-> Pos(0, 0), enemies |-> <<>>,
               treasures |-> <<>>, timers |-> 0, hung |-> FALSE,
               placed |-> 0, runs |-> 0, moves |-> 0]) :
          /\ gamePhase = s.gamePhase
          /\ board = s.board
          /\ score = s.score
          /\ linesCompleted = s.linesCompleted
          /\ hazardsCount = s.hazardsCount
          /\ currentPiece = s.currentPiece
          /\ currentPiecePosition = s.currentPiecePosition
          /\ playerPosition = s.playerPosition
          /\ enemies = s.enemies
          /\ treasures = s.treasures
          /\ timers = s.timers
          /\ hung = s.hung
          /\ placed = s.placed
          /\ runs = s.runs
          /\ moves = s.moves
    /\ dropCounter = 0
    /\ PageInit
    /\ call = NoCall

\* the page takes the keys of the piece and of the player: it is not hung,
\* and the exploration goes on
Accepting ==
    /\ ~hung
    /\ runs <= MaxRuns
    /\ gamePhase = "BUILDING" => placed < MaxPlaced
    /\ gamePhase = "ADVENTURE" =>
          /\ moves < MaxMoves /\ timers < MaxTimers
          /\ runs = 0 \/ placed < MaxPlaced

\* a key of the piece or, in the adventure, of the player: the moves that
\* changed something are counted
Counted(s) ==
    IF gamePhase = "ADVENTURE" /\ s # Game
    THEN [s EXCEPT !.moves = @ + 1] ELSE s

\* the log of a key that asks movePlayer for (dx, dy): the request is kept
\* while the phase is Adventure
Request(dx, dy) ==
    [Input("key") EXCEPT !.args =
        IF gamePhase = "ADVENTURE" THEN <<dx, dy>> ELSE <<>>]

KeyRotate ==
    /\ Accepting
    /\ \E s \in rotatePiece(Game) : Becomes(s)
    /\ call' = Input("key")

KeyLeft ==
    /\ Accepting
    /\ \E s \in movePieceLeft(Game) : Becomes(Counted(s))
    /\ call' = Request(-1, 0)

KeyRight ==
    /\ Accepting
    /\ \E s \in movePieceRight(Game) : Becomes(Counted(s))
    /\ call' = Request(1, 0)

KeyDown ==
    /\ Accepting
    /\ \E s \in movePieceDown(Game) : Becomes(Counted(s))
    /\ call' = Request(0, 1)

\* the log tells a drop that went past the early return of dropPiece from
\* the other keys
KeyDrop ==
    /\ Accepting
    /\ \E s \in dropPiece(Game) : Becomes(s)
    /\ call' = [Input("key") EXCEPT !.args =
                  IF gamePhase = "BUILDING" /\ currentPiece # NoPiece
                  THEN <<"drop">> ELSE <<>>]

KeySwitchPhase ==
    /\ ~hung
    /\ gamePhase = "ADVENTURE" => runs < MaxRuns /\ placed < MaxPlaced
    /\ \E s \in switchPhase(Game) : Becomes(s)
    /\ call' = Input("switchPhase")

\* a timer set by movePlayer runs out
EnemyTimer ==
    /\ ~hung
    /\ timers > 0
    /\ \E s \in moveEnemies(Game) : Becomes([s EXCEPT !.timers = @ - 1])
    /\ call' = Input("moveEnemies")

Next ==
    \/ KeyRotate
    \/ KeyLeft
    \/ KeyRight
    \/ KeyDown
    \/ KeyDrop
    \/ KeySwitchPhase
    \/ EnemyTimer

Spec == Init /\ [][Next]_vars

----------------------------------------------------------------------------
(* The canvas version of the game (touchControls.ts, lines 92 on): its     *)
(* game loop lets the piece fall by itself. In the Building phase its      *)
(* generatePiece, isValidMove, rotatePiece, movePieceLeft, movePieceRight, *)
(* movePieceDown, placePiece and prepareAdventurePhase are those of        *)
(* game.ts statement for statement, on the fields of gameState, and its    *)
(* switchPhase differs in the restart branch only.                         *)

\* let dropInterval: number = 1000
dropInterval == 1000

\* the time between two frames, in ms: the interval is passed on the second
\* frame or on the third
FrameTimes == {400, 700}

\* update with the drop left out when the interval has passed
updateWithoutDrop(s, counter, deltaTime) ==
    IF s.gamePhase = "BUILDING" /\ s.currentPiece # NoPiece
    THEN IF counter + deltaTime > dropInterval
         THEN {<<s, 0>>}
         ELSE {<<s, counter + deltaTime>>}
    ELSE {<<s, counter>>}

\* update(deltaTime), without the animations: the game and the drop counter
\* after the frame
update(s, counter, deltaTime) ==
    IF s.gamePhase = "BUILDING" /\ s.currentPiece # NoPiece
    THEN IF counter + deltaTime > dropInterval
         THEN {<<t, 0>> : t \in movePieceDown(s)}
         ELSE {<<s, counter + deltaTime>>}
    ELSE {<<s, counter>>}

\* initializeGame of the canvas version
LoopInit == Init

\* gameLoop: requestAnimationFrame calls it with the next timestamp
Frame ==
    /\ ~hung
    /\ \E deltaTime \in FrameTimes :
       \E after \in update(Game, dropCounter, deltaTime) :
          /\ GameBecomes(after[1])
          /\ dropCounter' = after[2]
    /\ UNCHANGED pageVars
    /\ call' = Input("frame")

\* the keys that steer the falling piece
SteerRotate ==
    /\ gamePhase = "BUILDING"
    /\ \E s \in rotatePiece(Game) : Becomes(s)
    /\ call' = Input("key")

SteerLeft ==
    /\ gamePhase = "BUILDING"
    /\ \E s \in movePieceLeft(Game) : Becomes(s)
    /\ call' = Input("key")

SteerRight ==
    /\ gamePhase = "BUILDING"
    /\ \E s \in movePieceRight(Game) : Becomes(s)
    /\ call' = Input("key")

\* the frames and the keys that steer the piece without placing it; the
\* keys that place it or end the phase at once, and the keys of the
\* Adventure phase, are left to Spec
LoopNext ==
    \/ Frame
    \/ SteerRotate
    \/ SteerLeft
    \/ SteerRight

\* a frame is due: Frame would change the state. It always does in the
\* Building phase, where the drop counter grows or the piece goes down
FrameDue ==
    /\ ~hung
    /\ gamePhase = "BUILDING" \/ call # Input("frame")

\* the step of Frame as the log and the drop counter tell it, without the
\* game: the counter never passes dropInterval, and the other actions log a
\* key
Tick ==
    /\ FrameDue
    /\ call' = Input("frame")
    /\ dropCounter' \in 0..dropInterval

\* frames keep ticking: requestAnimationFrame(gameLoop) at the end of
\* gameLoop asks for the next frame
LoopSpec ==
    LoopInit /\ [][LoopNext]_vars /\ WF_<<call, dropCounter>>(Tick)

----------------------------------------------------------------------------
(* Properties of the board functions *)

Adjacent(p, q) ==
    \/ p.x = q.x /\ (p.y = q.y + 1 \/ q.y = p.y + 1)
    \/ p.y = q.y /\ (p.x = q.x + 1 \/ q.x = p.x + 1)

\* the maximal 4-connected set of Empty cells of b that contains the cells S
RECURSIVE EmptyClosure(_, _)
EmptyClosure(b, S) ==
    LET N == S \cup {q \in Cells(b) :
                       At(b, q) = EMPTY /\ \E p \in S : Adjacent(p, q)}
    IN  IF N = S THEN S ELSE EmptyClosure(b, N)

EmptyComponent(b, p) == EmptyClosure(b, {p})

\* the grid identifyHazards must leave, cell by cell
HazardsExpected(b, p) ==
    IF At(b, p) # EMPTY THEN At(b, p)
    ELSE IF Cardinality(EmptyComponent(b, p)) <= 3 THEN HAZARD
    ELSE EMPTY

\* C1: after identifyHazards every maximal 4-connected Empty component of size
\* 1..3 is entirely Hazard, every larger one is still entirely Empty, and every
\* cell that was not Empty keeps its value.
C1_HazardComponents ==
    call.op = "identifyHazards" =>
        /\ board.width = call.before.width
        /\ board.height = call.before.height
        /\ \A p \in Cells(call.before) :
              At(board, p) = HazardsExpected(call.before, p)

\* a call that turned a small component into Hazard, left a large one Empty
\* and met a Hazard cell that was there before
C1_Witness ==
    /\ call.op = "identifyHazards"
    /\ \E p, q, r \in Cells(call.before) :
         /\ At(call.before, p) = EMPTY /\ At(board, p) = HAZARD
         /\ At(call.before, q) = EMPTY /\ At(board, q) = EMPTY
         /\ At(call.before, r) = HAZARD /\ At(board, r) = HAZARD

\* C3: checkCompletedLines returns exactly the rows without an Empty cell,
\* each once and in ascending order, and leaves the grid as it was.
C3_CompletedLines ==
    call.op = "checkCompletedLines" =>
        /\ \A i, j \in 1..Len(call.ret) : i < j => call.ret[i] < call.ret[j]
        /\ {call.ret[i] : i \in 1..Len(call.ret)} =
              {y \in 0..(call.before.height - 1) :
                  \A x \in 0..(call.before.width - 1) :
                      call.before.grid[y][x] # EMPTY}
        /\ board = call.before

\* a call that found two full rows and skipped a row with an Empty cell
C3_Witness ==
    /\ call.op = "checkCompletedLines"
    /\ Len(call.ret) = 2
    /\ call.before.height > 2
    /\ call.before.width > 1
    /\ call.ret[1] + 1 < call.ret[2]

\* a call on a grid without a full row
C3_WitnessNone ==
    /\ call.op = "checkCompletedLines"
    /\ call.ret = <<>>

\* C4: after convertCompletedLinesToPath(rows) every cell of a listed row is
\* Path and every cell of another row is what it was.
C4_ConvertFrame ==
    call.op = "convertCompletedLinesToPath" =>
        LET listed == {call.args[i] : i \in 1..Len(call.args)}
        IN  /\ board.width = call.before.width
            /\ board.height = call.before.height
            /\ \A p \in Cells(call.before) :
                  At(board, p) = IF p.y \in listed THEN PATH
                                 ELSE At(call.before, p)

\* a call that listed two rows, one of them with Empty and Hazard cells, and
\* left out a row that holds no Path
C4_Witness ==
    /\ call.op = "convertCompletedLinesToPath"
    /\ Len(call.args) = 2
    /\ \E p, q, r \in Cells(call.before) :
         /\ p.y = call.args[2] /\ At(call.before, p) = EMPTY
         /\ q.y = call.args[2] /\ At(call.before, q) = HAZARD
         /\ r.y \notin {call.args[1], call.args[2]}
         /\ At(call.before, r) # PATH /\ At(board, r) = At(call.before, r)

\* the nonzero cells of a shape, as (row, column) offsets
Occupied(shape) ==
    {rc \in (0..(Rows(shape) - 1)) \X (0..(Cols(shape) - 1)) :
        Cell(shape, rc[1], rc[2]) # 0}

\* C2: isValidMove is true exactly when every nonzero cell (r, c) of the shape
\* maps to a grid cell (position.x + c, position.y + r) inside the grid that is
\* Empty, and it changes nothing; on the empty 10x15 grid the I-piece is valid
\* at x=3, y=0 and invalid at x=7, y=0.
C2_ValidMove ==
    call.op = "isValidMove" =>
        LET piece == call.args[1]
            position == call.args[2]
        IN  /\ call.ret =
                  (\A rc \in Occupied(piece.shape) :
                      /\ position.x + rc[2] \in 0..(call.before.width - 1)
                      /\ position.y + rc[1] \in 0..(call.before.height - 1)
                      /\ call.before.grid[position.y + rc[1]][position.x + rc[2]]
                            = EMPTY)
            /\ board = call.before
            /\ (call.before = ExampleBoard /\ piece = PIECES[1]
                   /\ position = Pos(3, 0)) => call.ret = TRUE
            /\ (call.before = ExampleBoard /\ piece = PIECES[1]
                   /\ position = Pos(7, 0)) => call.ret = FALSE

\* a call whose piece lies inside the grid, over a zero cell of the shape that
\* is not Empty in the grid, and is valid
C2_Witness ==
    /\ call.op = "isValidMove"
    /\ call.ret = TRUE
    /\ \E y \in 0..(Rows(call.args[1].shape) - 1) :
       \E x \in 0..(Cols(call.args[1].shape) - 1) :
         /\ Cell(call.args[1].shape, y, x) = 0
         /\ isPositionValid(call.before, call.args[2].x + x, call.args[2].y + y)
         /\ getCell(call.before, call.args[2].x + x, call.args[2].y + y) # EMPTY

\* the scenario's two calls
C2_WitnessExample ==
    /\ call.op = "isValidMove"
    /\ call.before = ExampleBoard
    /\ call.args = <<PIECES[1], Pos(7, 0)>>
    /\ call.ret = FALSE

----------------------------------------------------------------------------
(* Properties of the game *)

\* the piece fits at (x, y): its nonzero cells are inside the grid, on Empty
Fits(b, shape, x, y) ==
    \A rc \in Occupied(shape) :
        /\ x + rc[2] \in 0..(b.width - 1)
        /\ y + rc[1] \in 0..(b.height - 1)
        /\ b.grid[y + rc[1]][x + rc[2]] = EMPTY

\* the row where a piece at position comes to rest when it goes straight down
LandingRow(b, piece, position) ==
    CHOOSE y \in position.y..b.height :
        /\ \A k \in position.y..y : Fits(b, piece.shape, position.x, k)
        /\ ~Fits(b, piece.shape, position.x, y + 1)

\* the grid with the piece stamped at (x, y)
StampedGrid(b, piece, x, y) ==
    [b EXCEPT !.grid = [r \in 0..(b.height - 1) |-> [c \in 0..(b.width - 1) |->
        IF <<r - y, c - x>> \in Occupied(piece.shape) THEN piece.terrainType
        ELSE b.grid[r][c]]]]

\* the rows without an Empty cell
FullRows(b) ==
    {y \in 0..(b.height - 1) : \A x \in 0..(b.width - 1) : b.grid[y][x] # EMPTY}

\* the given rows turned to Path, the rest as it is
PathRows(b, rows) ==
    [b EXCEPT !.grid = [y \in 0..(b.height - 1) |-> [x \in 0..(b.width - 1) |->
        IF y \in rows THEN PATH ELSE b.grid[y][x]]]]

\* the cells of the Empty components of b of at most 3 cells, among the cells
\* not yet looked at
RECURSIVE SmallEmptyCells(_, _)
SmallEmptyCells(b, rest) ==
    IF rest = {} THEN {}
    ELSE LET component == EmptyComponent(b, CHOOSE p \in rest : TRUE)
         IN  (IF Cardinality(component) <= 3 THEN component ELSE {})
             \cup SmallEmptyCells(b, rest \ component)

\* the grid with the cells of its small Empty components turned to Hazard
HazardsMarked(b) ==
    LET small == SmallEmptyCells(b, {p \in Cells(b) : At(b, p) = EMPTY})
    IN  [b EXCEPT !.grid = [y \in 0..(b.height - 1) |->
                               [x \in 0..(b.width - 1) |->
            IF Pos(x, y) \in small THEN HAZARD ELSE b.grid[y][x]]]]

\* the current piece stamped where it rests
StampedNow ==
    StampedGrid(board, currentPiece, currentPiecePosition.x,
                LandingRow(board, currentPiece, currentPiecePosition))

\* a step that commits the current piece
Placement == placed' = placed + 1

\* C5 as stated: a placement leaves the grid that stamping, then detecting the
\* complete rows, then converting exactly those rows to Path, then
\* identifyHazards over the whole grid give, so that every cell of a detected
\* row is Path when the placement finishes.
C5_PlacementOrderStated ==
    [][Placement =>
          \A stamped \in {StampedNow} :
              /\ board' = HazardsMarked(PathRows(stamped, FullRows(stamped)))
              /\ \A y \in FullRows(stamped) :
                 \A x \in 0..(BOARD_WIDTH - 1) : board'.grid[y][x] = PATH]_vars

\* C5, amended: the grid is the one the four steps give in this order, except
\* that a placement that ends the Building phase (the new piece does not fit
\* at its spawn position) prepares the adventure before it finishes, which may
\* turn Path cells of the last HAVEN_ROWS rows into Safe Haven; a cell of a
\* detected row is Path or such a Safe Haven, never Hazard.
C5_PlacementOrder ==
    [][Placement =>
          \A stamped \in {StampedNow} :
          \A expected \in {HazardsMarked(PathRows(stamped, FullRows(stamped)))} :
              /\ \A p \in Cells(board) :
                    \/ At(board', p) = At(expected, p)
                    \/ /\ gamePhase' = "ADVENTURE"
                       /\ p.y >= BOARD_HEIGHT - HAVEN_ROWS
                       /\ At(expected, p) = PATH
                       /\ At(board', p) = SAFE_HAVEN
              /\ \A p \in Cells(board) :
                    p.y \in FullRows(stamped) =>
                        At(board', p) \in {PATH, SAFE_HAVEN}]_vars

\* two pieces are placed and the game still builds: a row that was full but
\* for a pocket of Empty cells holds Hazard next to the terrain of the pieces
C5_Witness ==
    /\ gamePhase = "BUILDING"
    /\ placed = 2
    /\ \E y \in 0..(BOARD_HEIGHT - 1) :
         /\ \E x \in 0..(BOARD_WIDTH - 1) : board.grid[y][x] = HAZARD
         /\ \A x \in 0..(BOARD_WIDTH - 1) :
               board.grid[y][x] \in {HAZARD, FOREST, MOUNTAIN, WATER}

\* a placed piece completed a row: the row is Path and the score counts it
C5_WitnessPath ==
    /\ gamePhase = "BUILDING"
    /\ placed > 0
    /\ linesCompleted > 0
    /\ \E y \in 0..(BOARD_HEIGHT - 1) :
          \A x \in 0..(BOARD_WIDTH - 1) : board.grid[y][x] = PATH

\* the step moves the player by one cell, left, right or down, onto a cell of
\* the bottom row that is neither Empty nor Hazard and holds no enemy
ReachesBottomRow ==
    /\ \E d \in {<<-1, 0>>, <<1, 0>>, <<0, 1>>} :
          playerPosition' = Pos(playerPosition.x + d[1], playerPosition.y + d[2])
    /\ playerPosition'.y = BOARD_HEIGHT - 1
    /\ playerPosition'.x \in 0..(BOARD_WIDTH - 1)
    /\ At(board, playerPosition') \notin {EMPTY, HAZARD}
    /\ \A i \in 1..Len(enemies) : enemies[i] # playerPosition'

AdventureEnds == gamePhase = "ADVENTURE" /\ gamePhase' = "BUILDING"

BuildingEnds == gamePhase = "BUILDING" /\ gamePhase' = "ADVENTURE"

\* C6 as stated: the phase changes from Adventure to Building only on the
\* switch-phase input; no player move, enemy step or other operation causes it.
C6_RestartOnlyOnRequestStated ==
    [][AdventureEnds => call'.op = "switchPhase"]_vars

\* C6, amended: the phase changes from Adventure to Building only on the
\* switch-phase input or when a player move reaches the bottom row, which
\* completes the adventure; no enemy step and no other operation causes it.
C6_RestartOnlyOnRequest ==
    [][AdventureEnds =>
          \/ call'.op = "switchPhase"
          \/ call'.op = "key" /\ ReachesBottomRow]_vars

\* the game builds again after an adventure in which the player never moved
C6_Witness ==
    /\ gamePhase = "BUILDING"
    /\ runs = 1
    /\ moves = 0
    /\ placed > 0

\* the game builds again and the player stands where the adventure ended, on
\* the bottom row
C6_WitnessBottomRow ==
    /\ gamePhase = "BUILDING"
    /\ runs = 1
    /\ moves > 0
    /\ playerPosition.y = BOARD_HEIGHT - 1

\* the piece of the next state does not fit where it is
NewPieceBlocked ==
    ~Fits(board', currentPiece'.shape,
          currentPiecePosition'.x, currentPiecePosition'.y)

\* C7: the phase changes from Building to Adventure only on the switch-phase
\* input or at the end of a placement whose newly generated piece is not a
\* valid move at its spawn position; a placement changes the phase exactly in
\* that case, and no move or rotation changes it.
C7_AdventureBegins ==
    [][/\ BuildingEnds =>
              \/ call'.op = "switchPhase"
              \/ call'.op = "key" /\ Placement /\ NewPieceBlocked
       /\ (gamePhase = "BUILDING" /\ Placement) =>
              (gamePhase' = "ADVENTURE" <=> NewPieceBlocked)]_vars

\* the adventure began by itself: the piece generated last does not fit at its
\* spawn position
C7_Witness ==
    /\ gamePhase = "ADVENTURE"
    /\ placed > 0
    /\ ~Fits(board, currentPiece.shape,
             currentPiecePosition.x, currentPiecePosition.y)

\* the adventure began on request, after a placement that left a valid spawn
C7_WitnessRequested ==
    /\ gamePhase = "ADVENTURE"
    /\ placed > 0
    /\ Fits(board, currentPiece.shape,
            currentPiecePosition.x, currentPiecePosition.y)

\* C8: after every Adventure-to-Building transition the grid is a fresh
\* BOARD_WIDTH x BOARD_HEIGHT grid in which every cell is Empty, and the enemy
\* list and the treasure list are both empty.
C8_RestartDiscardsAll ==
    [][AdventureEnds =>
          /\ board' = GameBoard(BOARD_WIDTH, BOARD_HEIGHT)
          /\ enemies' = <<>>
          /\ treasures' = <<>>]_vars

\* the columns of row 0 of the grid the adventure starts on that are neither
\* Hazard nor Empty (a Safe Haven was Path when the player was placed)
TopRowCandidates ==
    {x \in 0..(BOARD_WIDTH - 1) : board'.grid[0][x] \notin {HAZARD, EMPTY}}

\* C9: on entering the Adventure phase, if row 0 holds a cell that is neither
\* Hazard nor Empty, the player starts at (x, 0) for the smallest column x of
\* such a cell.
C9_StartOnTopRow ==
    [][(BuildingEnds /\ TopRowCandidates # {}) =>
          \E x \in TopRowCandidates :
              /\ \A other \in TopRowCandidates : x <= other
              /\ playerPosition' = Pos(x, 0)]_vars

\* C10: on entering the Adventure phase, in the first run and in every run
\* after a restart, if row 0 holds no cell that is neither Hazard nor Empty,
\* the player starts on a cell of the rows 0..SPAWN_ROWS-1 whose grid value is
\* not Hazard.
C10_FallbackStart ==
    [][(BuildingEnds /\ TopRowCandidates = {} /\ ~hung') =>
          /\ playerPosition'.x \in 0..(BOARD_WIDTH - 1)
          /\ playerPosition'.y \in 0..(SPAWN_ROWS - 1)
          /\ At(board', playerPosition') # HAZARD]_vars

\* the Hazard cells of the grid the adventure starts on
HazardCells == {p \in Cells(board') : At(board', p) = HAZARD}

\* C11: on entering the Adventure phase the enemy list is rebuilt from
\* scratch: it holds exactly one enemy for each Hazard cell of the grid, on
\* that cell, and no enemy on a cell that is not Hazard.
C11_EnemiesAreHazards ==
    [][(BuildingEnds /\ ~hung') =>
          /\ {enemies'[i] : i \in 1..Len(enemies')} = HazardCells
          /\ Len(enemies') = Cardinality(HazardCells)]_vars

\* a second adventure has begun: there are enemies, one on each Hazard cell,
\* and cells that are not Hazard
C11_Witness ==
    /\ gamePhase = "ADVENTURE"
    /\ runs = 1
    /\ call.op = "switchPhase"
    /\ Len(enemies) >= 2
    /\ \A i \in 1..Len(enemies) : At(board, enemies[i]) = HAZARD

\* one step from 0 in the direction of d
Toward(d) == IF d > 0 THEN 1 ELSE IF d < 0 THEN -1 ELSE 0

\* where an enemy at e heads for: one cell toward the player along X, or one
\* cell toward the player along Y (its own cell when it is level with the
\* player on that axis)
Destination(e, alongX) ==
    IF alongX THEN Pos(e.x + Toward(playerPosition.x - e.x), e.y)
    ELSE Pos(e.x, e.y + Toward(playerPosition.y - e.y))

\* a cell inside the grid that is neither Empty nor Hazard
Passable(p) == p \in Cells(board) /\ At(board, p) \notin {EMPTY, HAZARD}

\* the enemy at e reaches the player
Catches(e, alongX) ==
    Passable(Destination(e, alongX)) /\ Destination(e, alongX) = playerPosition

\* where the enemy at e is after its step
AfterStep(e, alongX) ==
    IF Passable(Destination(e, alongX))
       /\ Destination(e, alongX) # playerPosition
    THEN Destination(e, alongX) ELSE e

\* the draws of enemy number i that leave it where the next state has it
Draws(i) == {alongX \in BOOLEAN : AfterStep(enemies[i], alongX) = enemies'[i]}

\* the numbers of enemies that can have reached the player in the step: the
\* enemies draw independently, so every number between those that must have
\* and those that may have
CatchCounts ==
    Cardinality({i \in 1..Len(enemies) :
                    \A alongX \in Draws(i) : Catches(enemies[i], alongX)})
    ..
    Cardinality({i \in 1..Len(enemies) :
                    \E alongX \in Draws(i) : Catches(enemies[i], alongX)})

\* every enemy has made the step of one of its draws, and nothing moved the
\* player
EnemiesStepped ==
    /\ Len(enemies') = Len(enemies)
    /\ \A i \in 1..Len(enemies) : Draws(i) # {}
    /\ playerPosition' = playerPosition

\* C12 as stated: in an enemy step each enemy either stays or moves one cell
\* along one axis toward the player, only onto a cell inside the grid that is
\* neither Empty nor Hazard, and an enemy whose destination is the player's
\* cell stays and reduces the score by 100.
C12_EnemyStepStated ==
    [][call'.op = "moveEnemies" =>
          /\ EnemiesStepped
          /\ \E k \in CatchCounts : score' = score - CAUGHT_PENALTY * k]_vars

\* C12, amended: as stated, but the penalty of an enemy that reaches the
\* player takes the score down by 100 or to 0, whichever is higher.
C12_EnemyStep ==
    [][call'.op = "moveEnemies" =>
          /\ EnemiesStepped
          /\ \E k \in CatchCounts :
                score' = IF score - CAUGHT_PENALTY * k < 0 THEN 0
                         ELSE score - CAUGHT_PENALTY * k]_vars

\* after an enemy step one enemy has left its Hazard cell and another one,
\* next to the player, is where it was
C12_Witness ==
    /\ gamePhase = "ADVENTURE"
    /\ call.op = "moveEnemies"
    /\ \E i, j \in 1..Len(enemies) :
          /\ At(board, enemies[i]) \notin {EMPTY, HAZARD}
          /\ At(board, enemies[j]) = HAZARD
          /\ Adjacent(enemies[j], playerPosition)

\* the coordinates of the logged call lie inside the grid it was made on
InsideGrid ==
    /\ call.args[1] \in 0..(call.before.width - 1)
    /\ call.args[2] \in 0..(call.before.height - 1)

\* C13: isPositionValid(x, y) is true exactly when 0 <= x < width and
\* 0 <= y < height; out of bounds getCell returns the undefined sentinel,
\* which is no grid value, and setCell leaves every grid cell as it was; inside
\* the grid getCell reads the cell and setCell writes that cell only.
C13_CellAccess ==
    /\ call.op = "isPositionValid" =>
          call.ret = InsideGrid /\ board = call.before
    /\ call.op = "getCell" =>
          /\ call.ret = IF InsideGrid
                        THEN call.before.grid[call.args[2]][call.args[1]]
                        ELSE UNDEFINED
          /\ \A p \in Cells(call.before) : At(call.before, p) # UNDEFINED
          /\ board = call.before
    /\ call.op = "setCell" =>
          /\ board.width = call.before.width
          /\ board.height = call.before.height
          /\ \A p \in Cells(call.before) :
                At(board, p) =
                    IF InsideGrid /\ p = Pos(call.args[1], call.args[2])
                    THEN call.args[3] ELSE At(call.before, p)

\* setCell was called just right of a row that holds a non-Empty cell, with
\* a terrain other than Empty
C13_Witness ==
    /\ call.op = "setCell"
    /\ call.args[1] = call.before.width
    /\ call.args[2] \in 0..(call.before.height - 1)
    /\ call.args[3] = HAZARD
    /\ \E x \in 0..(call.before.width - 1) :
          call.before.grid[call.args[2]][x] # EMPTY

\* getCell was called above the grid
C13_WitnessGet ==
    /\ call.op = "getCell"
    /\ call.args[2] = -1
    /\ call.ret = UNDEFINED


\* C17: in every reachable state every grid cell holds Empty, Forest,
\* Mountain, Water, Path, Hazard or SafeHaven; the Player, Enemy and Treasure
\* markers are never stored in the grid
C17_GridTerrain ==
    \A p \in Cells(board) :
        At(board, p) \in {EMPTY, FOREST, MOUNTAIN, WATER, PATH, HAZARD,
                          SAFE_HAVEN}

\* pieces were placed, the Adventure phase was set up with a Safe Haven, an
\* enemy and a treasure, the player has moved and the enemies have stepped
C17_Witness ==
    /\ gamePhase = "ADVENTURE"
    /\ call.op = "moveEnemies"
    /\ placed > 0 /\ moves > 0
    /\ enemies # <<>>
    /\ treasures # <<>>
    /\ \E p, q, r \in Cells(board) :
         /\ At(board, p) = SAFE_HAVEN
         /\ At(board, q) = HAZARD
         /\ At(board, r) \in {FOREST, MOUNTAIN, WATER}

\* C18: once the Adventure phase is set up the grid is read-only: an enemy
\* step never changes it, and any other step of the Adventure phase either
\* leaves every cell as it was or is a restart, which replaces the grid with
\* a new, empty one
C18_GridFrozen ==
    [][gamePhase = "ADVENTURE" =>
          /\ call'.op = "moveEnemies" => board' = board
          /\ \/ board' = board
             \/ /\ call'.op \in {"key", "switchPhase"}
                /\ gamePhase' = "BUILDING"
                /\ runs' = runs + 1
                /\ board' = GameBoard(BOARD_WIDTH, BOARD_HEIGHT)]_vars

\* the player has moved twice over a grid that holds terrain, with an enemy
\* on the board and an enemy step still to come
C18_Witness ==
    /\ gamePhase = "ADVENTURE"
    /\ call.op = "key"
    /\ moves = MaxMoves
    /\ timers > 0
    /\ enemies # <<>>
    /\ \E p \in Cells(board) : At(board, p) \in {FOREST, MOUNTAIN, WATER}

\* a restart has replaced a grid that held terrain
C18_WitnessRestart ==
    /\ gamePhase = "BUILDING"
    /\ runs > 0
    /\ placed > 0
    /\ board = GameBoard(BOARD_WIDTH, BOARD_HEIGHT)

\* C19: no points are awarded during the Building phase: no move, rotation,
\* drop or placement of the Building phase, a placement that completes lines
\* included, changes the score
C19_NoBuildingScore ==
    [][gamePhase = "BUILDING" /\ gamePhase' = "BUILDING" => score' = score]_vars

\* a drop of the current piece in the Building phase
Drop == call'.args = <<"drop">>

\* the cells the piece covers when it stands at row y
Footprint(piece, position, y) ==
    {Pos(position.x + rc[2], y + rc[1]) : rc \in Occupied(piece.shape)}

\* the rows y at or below the position such that the piece is a valid move at
\* every row from its own down to y and is not one row lower
RestingRows(b, piece, position) ==
    {y \in position.y..(b.height - 1) :
        /\ \A k \in position.y..y : Fits(b, piece.shape, position.x, k)
        /\ ~Fits(b, piece.shape, position.x, y + 1)}

\* C20: a drop in the Building phase places the current piece, with its x and
\* its shape, at the lowest row it reaches by going straight down: the row y
\* at or below its own such that it is a valid move at every row down to y
\* and not at y + 1; the cells it covers there hold its terrain (or Path, or
\* Safe Haven, when the placement completed their row) and no other Empty cell
\* is filled
C20_DropLands ==
    [][Drop =>
          /\ Placement
          /\ \E y \in RestingRows(board, currentPiece, currentPiecePosition) :
               /\ \A other \in RestingRows(board, currentPiece,
                                           currentPiecePosition) : other <= y
               /\ \A p \in Footprint(currentPiece, currentPiecePosition, y) :
                     At(board', p) \in {currentPiece.terrainType, PATH,
                                        SAFE_HAVEN}
               /\ \A p \in Cells(board) \
                           Footprint(currentPiece, currentPiecePosition, y) :
                     \/ At(board, p) = EMPTY /\ At(board', p) \in {EMPTY, HAZARD}
                     \/ At(board, p) # EMPTY /\ At(board', p) # EMPTY]_vars

\* a drop has put the second piece on top of the first, two rows or more
\* below the row it was generated on, and left the top row Empty
C20_Witness ==
    /\ call.args = <<"drop">>
    /\ placed = 2
    /\ runs = 0
    /\ \A x \in 0..(BOARD_WIDTH - 1) : board.grid[0][x] = EMPTY
    /\ \E x \in 0..(BOARD_WIDTH - 1) :
         /\ board.grid[1][x] = EMPTY
         /\ board.grid[2][x] = MOUNTAIN
         /\ board.grid[3][x] = PATH

\* C16: identifyHazards is idempotent: a call made on the grid an earlier
\* call left changes no cell of it
C16_Idempotent ==
    [][call.op = "identifyHazards" => board' = board]_vars

\* a second call has run on a grid in which the first one had marked a small
\* Empty component and left a large one Empty
C16_Witness ==
    /\ call.op = "identifyHazards"
    /\ call.before = board
    /\ \E p, q \in Cells(board) :
         /\ At(board, p) = HAZARD
         /\ TerrainAt(board.width, p.x, p.y) # HAZARD
         /\ At(board, q) = EMPTY
----------------------------------------------------------------------------
(* Properties of Piece.rotate (RotateSpec) *)

\* C14: rotate applied four times to a non-empty rectangular shape gives
\* back a shape with the rows, the columns and the cell values of the
\* original, whichever of Piece.rotate and the reducer made each turn
C14_FourTurns ==
    Rotations = 4 =>
        /\ Rows(currentPiece.shape) = Rows(call.before[1].shape)
        /\ Cols(currentPiece.shape) = Cols(call.before[1].shape)
        /\ currentPiece.shape = call.before[1].shape

\* a shape that is neither square nor symmetric has made its four turns, and
\* none of the first three gave the original back
C14_Witness ==
    /\ Rotations = 4
    /\ call.before[1].shape = << <<0, 0, 3>>, <<3, 3, 3>> >>
    /\ call.before[2].shape # call.before[1].shape
    /\ rotate(call.before[2].shape) = call.before[1].shape

\* C15: rotate turns a shape of R rows and C columns into one of C rows and
\* R columns with rotated[i][k] = original[R-1-k][i]; the piece keeps its
\* position and its terrain type, and the turn is made whether or not the
\* turned piece is a valid move where it stands
C15_QuarterTurn ==
    call.op = "rotate" =>
        \A original \in {call.before[2].shape} :
            /\ Rows(currentPiece.shape) = Cols(original)
            /\ \A i \in 0..(Cols(original) - 1) :
                 /\ Len(currentPiece.shape[i + 1]) = Rows(original)
                 /\ \A k \in 0..(Rows(original) - 1) :
                      Cell(currentPiece.shape, i, k)
                          = Cell(original, Rows(original) - 1 - k, i)
            /\ currentPiece.position = call.before[2].position
            /\ currentPiece.terrainType = call.before[2].terrainType
            /\ call.ret = currentPiece

\* a shape with more columns than rows and a top row that differs from its
\* bottom row has been turned where the turned piece does not fit the board
C15_Witness ==
    /\ call.op = "rotate"
    /\ call.before[2].shape = << <<0, 0, 3>>, <<3, 3, 3>> >>
    /\ currentPiece.shape = << <<3, 0>>, <<3, 0>>, <<3, 3>> >>
    /\ currentPiece.position = Pos(1, 2)
    /\ isValidMove(board, call.before[2], call.before[2].position)
    /\ ~isValidMove(board, currentPiece, currentPiece.position)


----------------------------------------------------------------------------
(* Properties of the player's moves *)

\* a key of the Adventure phase that asks for a player move
MoveRequest == gamePhase = "ADVENTURE" /\ call'.op = "key" /\ Len(call'.args) = 2

\* the cell the request asks for
Requested == Pos(playerPosition.x + call'.args[1], playerPosition.y + call'.args[2])

HoldsEnemy(p) == \E i \in 1..Len(enemies) : enemies[i] = p

\* all of the game but the score is as it was
RejectedFrame ==
    /\ playerPosition' = playerPosition
    /\ treasures' = treasures
    /\ timers' = timers
    /\ enemies' = enemies
    /\ board' = board
    /\ gamePhase' = gamePhase

\* C21 as stated: a move request changes the player's position only if the
\* destination is inside the grid, neither Empty nor Hazard, and holds no
\* enemy; otherwise the position is unchanged, no treasure is collected, no
\* enemy step is scheduled, and the only effect is that the score goes down
\* by 50 when the destination holds an enemy.
C21_RejectedMoveStated ==
    [][MoveRequest =>
          \A dest \in {Requested} :
              /\ playerPosition' # playerPosition =>
                    Passable(dest) /\ ~HoldsEnemy(dest)
              /\ ~(Passable(dest) /\ ~HoldsEnemy(dest)) =>
                    /\ RejectedFrame
                    /\ score' = IF HoldsEnemy(dest)
                                THEN score - ENCOUNTER_PENALTY ELSE score]_vars

\* C21, amended: the same, except that the penalty is charged only when the
\* destination is inside the grid and neither Empty nor Hazard (an enemy that
\* stands on a Hazard cell costs nothing: the request is rejected before the
\* enemies are looked at), and that the score never goes below 0.
C21_RejectedMove ==
    [][MoveRequest =>
          \A dest \in {Requested} :
              /\ playerPosition' # playerPosition =>
                    Passable(dest) /\ ~HoldsEnemy(dest)
              /\ ~(Passable(dest) /\ ~HoldsEnemy(dest)) =>
                    /\ RejectedFrame
                    /\ score' = IF Passable(dest) /\ HoldsEnemy(dest)
                                THEN IF score < ENCOUNTER_PENALTY THEN 0
                                     ELSE score - ENCOUNTER_PENALTY
                                ELSE score]_vars

\* a request for a passable cell that holds an enemy has just cost 50 points:
\* the player is next to the enemy, where it was, with an enemy step pending
\* from its last move
C21_Witness ==
    /\ gamePhase = "ADVENTURE"
    /\ call.op = "key" /\ Len(call.args) = 2
    /\ \A dest \in {Pos(playerPosition.x + call.args[1],
                         playerPosition.y + call.args[2])} :
          /\ dest \in Cells(board)
          /\ At(board, dest) \notin {EMPTY, HAZARD}
          /\ \E i \in 1..Len(enemies) : enemies[i] = dest
    /\ score = 50

\* a request for a Hazard cell on which an enemy stands has been rejected
C21_WitnessHazard ==
    /\ gamePhase = "ADVENTURE"
    /\ call.op = "key" /\ Len(call.args) = 2
    /\ \A dest \in {Pos(playerPosition.x + call.args[1],
                         playerPosition.y + call.args[2])} :
          /\ dest \in Cells(board)
          /\ At(board, dest) = HAZARD
          /\ \E i \in 1..Len(enemies) : enemies[i] = dest
    /\ score > 0


----------------------------------------------------------------------------
(* Properties of the falling piece *)

\* the falling piece lies inside the grid, on Empty cells only
PieceFits ==
    /\ currentPiece # NoPiece
    /\ Fits(board, currentPiece.shape, currentPiecePosition.x,
            currentPiecePosition.y)

\* a key of the Building phase that commits no piece
BuildingKey ==
    /\ gamePhase = "BUILDING"
    /\ call'.op = "key"
    /\ ~Placement

\* C22: in every Building-phase state the falling piece is validly placed;
\* a key that commits no piece leaves the piece as it was, or one cell to the
\* left, to the right or down with its shape, or turned where it stands, and
\* never on a position that is not valid (an invalid move or rotation leaves
\* position and shape as they were); a placement changes no cell that was
\* not Empty, except into Path (or Safe Haven) when its row was completed
C22_PieceValid ==
    /\ [](gamePhase = "BUILDING" => PieceFits)
    /\ [][BuildingKey =>
             /\ board' = board
             /\ gamePhase' = "BUILDING"
             /\ currentPiece'.terrainType = currentPiece.terrainType
             /\ \/ /\ currentPiece' = currentPiece
                   /\ currentPiecePosition' \in
                         {currentPiecePosition,
                          Pos(currentPiecePosition.x - 1, currentPiecePosition.y),
                          Pos(currentPiecePosition.x + 1, currentPiecePosition.y),
                          Pos(currentPiecePosition.x, currentPiecePosition.y + 1)}
                \/ /\ currentPiece'.shape = rotate(currentPiece.shape)
                   /\ currentPiecePosition' = currentPiecePosition]_vars
    /\ [][Placement =>
             \A p \in Cells(board) :
                 At(board, p) # EMPTY =>
                     At(board', p) \in {At(board, p), PATH, SAFE_HAVEN}]_vars

\* the L piece stands turned beside terrain of an earlier placement, where
\* neither a further turn nor a step to one side is a valid move
C22_Witness ==
    /\ gamePhase = "BUILDING"
    /\ placed = 1
    /\ call.op = "key"
    /\ currentPiece.shape = rotate(PIECES[2].shape)
    /\ \E p \in Cells(board) : At(board, p) # EMPTY
    /\ ~Fits(board, rotate(currentPiece.shape), currentPiecePosition.x,
             currentPiecePosition.y)
    /\ \/ ~Fits(board, currentPiece.shape, currentPiecePosition.x - 1,
                currentPiecePosition.y)
       \/ ~Fits(board, currentPiece.shape, currentPiecePosition.x + 1,
                currentPiecePosition.y)


----------------------------------------------------------------------------
(* Properties of the line count *)

\* the rows converted to Path so far: in the Building phase only the
\* conversion of a completed row writes Path
ConvertedRows ==
    {y \in 0..(BOARD_HEIGHT - 1) :
        \A x \in 0..(BOARD_WIDTH - 1) : board.grid[y][x] = PATH}

\* C23: within one Building phase each row is counted at most once: a row
\* converted to Path by an earlier placement adds nothing to linesCompleted
\* and nothing to the score in a later placement, so that linesCompleted is
\* the number of distinct rows converted so far and the score is 100 times it
C23_RowsCountedOnce ==
    gamePhase = "BUILDING" =>
        /\ linesCompleted = Cardinality(ConvertedRows)
        /\ score = LINE_SCORE * Cardinality(ConvertedRows)


----------------------------------------------------------------------------
(* Properties of the enemy timer *)

\* C24: an enemy step that a player move scheduled and that fires after the
\* game has returned to the Building phase has no effect: while the phase is
\* Building no enemy position changes and the score is not reduced by the
\* penalty of a catch
C24_StaleEnemyStep ==
    [][gamePhase = "BUILDING" /\ call'.op = "moveEnemies" =>
          /\ enemies' = enemies
          /\ score' = score]_vars


----------------------------------------------------------------------------
(* Properties of the player and the enemies *)

\* C25: in every state of the Adventure phase, in the first run and in the
\* runs after a restart, no enemy is on the player's cell
C25_NoEnemyOnPlayer ==
    gamePhase = "ADVENTURE" /\ ~hung =>
        \A i \in 1..Len(enemies) : enemies[i] # playerPosition

----------------------------------------------------------------------------
(* Properties of the auto-dropping game loop *)

EmptyCount(b) == Cardinality({p \in Cells(b) : At(b, p) = EMPTY})

\* the most pieces one Building phase can hold
MostPieces == (BOARD_WIDTH * BOARD_HEIGHT) \div 4

\* C26: within a run a non-Empty cell never becomes Empty again and every
\* placement lowers the number of Empty cells by at least the number of
\* cells of the piece, so that at most floor(width*height/4) pieces are
\* placed in one Building phase; when frames keep ticking, every Building
\* phase of the game loop reaches the Adventure phase, with or without keys
C26_BuildingPhaseEnds ==
    /\ [][runs' = runs =>
            \A p \in Cells(board) :
               At(board, p) # EMPTY => At(board', p) # EMPTY]_vars
    /\ [][Placement =>
            EmptyCount(board') + Cardinality(Occupied(currentPiece.shape))
                <= EmptyCount(board)]_vars
    /\ [](placed <= MostPieces)
    /\ (gamePhase = "BUILDING" ~> gamePhase = "ADVENTURE")

\* the frames have placed the most pieces the board can hold and the
\* Adventure phase has begun
C26_Witness ==
    /\ gamePhase = "ADVENTURE"
    /\ placed = MostPieces
    /\ call.op = "frame"
    /\ EmptyCount(board) = 0

----------------------------------------------------------------------------
(* Properties of the fallback spawn *)

\* the cells of the rows the fallback spawn samples
SpawnCells == {p \in Cells(board) : p.y < SPAWN_ROWS}

\* C27: in every reachable grid at least one cell of the rows 0..2 is not
\* Hazard, so the resampling loop of the fallback spawn has a cell that ends
\* it and the loop never runs for ever
C27_SpawnLoopEnds ==
    /\ \E p \in SpawnCells : At(board, p) # HAZARD
    /\ ~hung

\* the first adventure has begun with the fallback spawn, which rejects the
\* Hazard cells of the first rows: the player stands below the row the scan
\* looks at
C27_Witness ==
    /\ gamePhase = "ADVENTURE"
    /\ runs = 0
    /\ moves = 0
    /\ playerPosition.y > 0
    /\ \E p \in SpawnCells : At(board, p) = HAZARD

----------------------------------------------------------------------------
(* Properties of the score *)

\* playerReducer, ENCOUNTER_ENEMY: the score after the penalty
playerReducerEncounterEnemy(stateScore, penalty) ==
    IF 0 > stateScore - penalty THEN 0 ELSE stateScore - penalty

\* C28: the score is never negative: a step that lowers it is a penalty (50
\* for a request for a cell that holds an enemy, 100 for each enemy that
\* catches the player) that leaves it at or above 0, or it ends at 0 (a
\* clamped penalty or a reset); every other change is an addition. The
\* reducer of the state module clamps the same way
C28_ScoreNotNegative ==
    /\ [](/\ score >= 0
          /\ \A penalty \in {ENCOUNTER_PENALTY, CAUGHT_PENALTY} :
                 /\ playerReducerEncounterEnemy(score, penalty) >= 0
                 /\ playerReducerEncounterEnemy(score, penalty)
                       \in {0, score - penalty})
    /\ [][score' < score =>
            \/ score' = 0
            \/ MoveRequest /\ score' = score - ENCOUNTER_PENALTY
            \/ /\ call'.op = "moveEnemies"
               /\ \E k \in 1..Len(enemies) :
                     score' = score - CAUGHT_PENALTY * k]_vars

\* a request for a cell that holds an enemy has been charged while the score
\* was 0: no row was completed, so that the first adventure has no treasure
\* and no Safe Haven
C28_Witness ==
    /\ gamePhase = "ADVENTURE"
    /\ call.op = "key" /\ Len(call.args) = 2
    /\ \A dest \in {Pos(playerPosition.x + call.args[1],
                         playerPosition.y + call.args[2])} :
          /\ dest \in Cells(board)
          /\ At(board, dest) \notin {EMPTY, HAZARD}
          /\ \E i \in 1..Len(enemies) : enemies[i] = dest
    /\ runs = 0
    /\ linesCompleted = 0
    /\ treasures = <<>>
    /\ \A p \in Cells(board) : At(board, p) # SAFE_HAVEN
    /\ score = 0

----------------------------------------------------------------------------
(* Properties of EventEmitter *)

\* C29: emit calls every callback that is subscribed when emit is called,
\* exactly once and in the order of the subscriptions, also when a callback
\* throws or unsubscribes itself during the emit, as the callbacks of once do
C29_EmitCallsAll ==
    call.op = "emit" =>
        call.ret = [i \in 1..Len(call.before) |-> call.before[i].id]

----------------------------------------------------------------------------
(* Properties of loadAssets *)

\* every asset given to loadAssets has finished loading successfully
AllLoaded ==
    /\ loadingLayer.loads > 0
    /\ loadingLayer.assets \subseteq assetLoader.assets

\* C30: once every asset of the list has finished loading successfully, an
\* empty list and cached assets included, and update keeps being called, the
\* promise of loadAssets is resolved in the end and the loading layer is
\* removed
C30_LoadAssetsResolves ==
    AllLoaded ~> (loadingLayer.resolved /\ ~loadingLayer.shown)

====
